---- MODULE Spec2Model ----
(***************************************************************************)
(* Discrete-event simulation models of the repository (package sd).        *)
(*                                                                         *)
(* The models run on an event-queue scheduler: BaseEnvironment.step pops   *)
(* the minimal (time, priority, sequence) entry, marks its event           *)
(* processed and runs the event's callbacks in registration order.  A      *)
(* callback either resumes a suspended process (a Python generator) or is  *)
(* the bookkeeping callback of a Resource, Container, Store or Condition.  *)
(* One action of this module is one such callback, or one run of a         *)
(* process body from the point where it is resumed to its next yield.      *)
(*                                                                         *)
(* Time unit: the models keep integer clocks.  The assembly cell counts    *)
(* in ticks of 10 seconds (6 ticks per minute).                            *)
(***************************************************************************)
EXTENDS Integers, Sequences, FiniteSets, TLC

VARIABLES
    now,      \* Environment.now
    eid,      \* Environment._eid, the sequence counter of scheduled entries
    queue,    \* Environment._queue: set of [t, prio, seq, e]
    ev,       \* every event created so far: [st, val, cbs, ty, on, arg, tc, tt]
    cur,      \* the event popped by the step in progress (0: none)
    cbs,      \* callbacks of cur that have not run yet
    run,      \* the process being resumed and the value sent into it
    err,      \* exception that left the run loop ("" while running)
    res,      \* Resources by name: [cap, users, queue]
    cont,     \* Containers by name: [bounded, cap, level, getq, putq]
    store,    \* Stores by name: [bounded, cap, items, getq, putq]
    proc,     \* processes: [kind, pc, ev, ...locals]
    m,        \* the model object's own fields
    obs       \* observations of the run (times of releases, grants, puts)

vars == <<now, eid, queue, ev, cur, cbs, run, err, res, cont, store, proc, m, obs>>

-----------------------------------------------------------------------------
(* Values, priorities *)

None == <<>>
Some(v) == <<v>>

URGENT == 0
NORMAL == 1

NoRun == [p |-> 0, val |-> None]

Cb(kind, a) == [k |-> kind, a |-> a]

(* The kernel state as one record, so that the operations of a process    *)
(* body compose as functions.                                             *)
K == [now |-> now, eid |-> eid, queue |-> queue, ev |-> ev, run |-> run,
      err |-> err, res |-> res, cont |-> cont, store |-> store, obs |-> obs]

SetK(k) ==
    /\ now' = k.now
    /\ eid' = k.eid
    /\ queue' = k.queue
    /\ ev' = k.ev
    /\ run' = k.run
    /\ err' = k.err
    /\ res' = k.res
    /\ cont' = k.cont
    /\ store' = k.store
    /\ obs' = k.obs

-----------------------------------------------------------------------------
(* Events and the queue *)

(* ty, on: what the event is (timeout, process, request, ...) and the     *)
(* resource it belongs to; arg: the amount or item of a put/get; tc, tt:  *)
(* the times at which it was created and triggered.                        *)
NewEvent(k, ty, on, arg) ==
    [k EXCEPT !.ev = Append(@, [st |-> "pending", val |-> None, cbs |-> <<>>,
                                ty |-> ty, on |-> on, arg |-> arg,
                                tc |-> k.now, tt |-> -1])]

LastId(k) == Len(k.ev)

(* An entry due one unit of time before the delay asked for. *)
Schedule_Early(k, e, prio, delay) ==
    [k EXCEPT !.queue = @ \cup {[t |-> k.now + delay - 1, prio |-> prio,
                                 seq |-> k.eid, e |-> e]},
              !.eid = @ + 1]

Schedule(k, e, prio, delay) ==
    [k EXCEPT !.queue = @ \cup {[t |-> k.now + delay, prio |-> prio,
                                 seq |-> k.eid, e |-> e]},
              !.eid = @ + 1]

(* The order of the queue without the priority. *)
Before_NoPriority(x, y) ==
    \/ x.t < y.t
    \/ x.t = y.t /\ x.seq < y.seq

Before(x, y) ==
    \/ x.t < y.t
    \/ x.t = y.t /\ x.prio < y.prio
    \/ x.t = y.t /\ x.prio = y.prio /\ x.seq < y.seq

(* Among the entries of the earliest time, the one scheduled last. *)
MinEntry_Newest(q) ==
    CHOOSE x \in q : \A y \in q \ {x} : x.t < y.t \/ (x.t = y.t /\ x.seq > y.seq)

MinEntry(q) == CHOOSE x \in q : \A y \in q \ {x} : Before(x, y)

(* succeed() that fires the event again whatever its state. *)
Succeed_Refire(k, e, val) ==
    Schedule([k EXCEPT !.ev[e].st = "triggered", !.ev[e].val = val,
                       !.ev[e].tt = k.now], e, NORMAL, 0)

Succeed(k, e, val) ==
    IF k.ev[e].st # "pending"
    THEN [k EXCEPT !.err = "RuntimeError"]
    ELSE Schedule([k EXCEPT !.ev[e].st = "triggered", !.ev[e].val = val,
                            !.ev[e].tt = k.now], e, NORMAL, 0)

Timeout(k, delay) ==
    LET k1 == NewEvent(k, "timeout", "", None)
        e == LastId(k1)
    IN  Schedule([k1 EXCEPT !.ev[e].st = "triggered", !.ev[e].tt = k.now + delay],
                 e, NORMAL, delay)

(* env.process whose Initialize event is due one unit of time later. *)
Spawn_Delayed(k, p) ==
    LET k1 == NewEvent(k, "process", "", None)
        k2 == NewEvent(k1, "initialize", "", None)
        i == LastId(k2)
    IN  Schedule([k2 EXCEPT !.ev[i].st = "triggered", !.ev[i].tt = k.now,
                            !.ev[i].cbs = <<Cb("resume", p)>>], i, URGENT, 1)

(* env.process(generator): the process event, then its Initialize event   *)
(* scheduled URGENT at the current time.  The process event is            *)
(* LastId(k) + 1.                                                          *)
Spawn(k, p) ==
    LET k1 == NewEvent(k, "process", "", None)
        k2 == NewEvent(k1, "initialize", "", None)
        i == LastId(k2)
    IN  Schedule([k2 EXCEPT !.ev[i].st = "triggered", !.ev[i].tt = k.now,
                            !.ev[i].cbs = <<Cb("resume", p)>>], i, URGENT, 0)

(* A process yields event e: it continues at once when e is already       *)
(* processed, and otherwise waits as a callback of e.  A body that raised *)
(* never reaches its yield.                                                *)
Yield(k, p, e) ==
    IF k.err # "" THEN [k EXCEPT !.run = NoRun]
    ELSE IF k.ev[e].st = "processed"
    THEN [k EXCEPT !.run = [p |-> p, val |-> k.ev[e].val]]
    ELSE [k EXCEPT !.ev[e].cbs = Append(@, Cb("resume", p)), !.run = NoRun]

(* A process body returns: its process event is triggered with the value. *)
Finish(k, pe, val) ==
    Schedule([k EXCEPT !.ev[pe].st = "triggered", !.ev[pe].val = val,
                       !.ev[pe].tt = k.now, !.run = NoRun], pe, NORMAL, 0)

-----------------------------------------------------------------------------
(* simpy.Resource: request, release, and the put-queue trigger *)

Remove(seq, x) == SelectSeq(seq, LAMBDA y : y # x)

(* The newest request of the queue is served, not the head. *)
ResTriggerPut_Newest(k, r) ==
    LET R == k.res[r] IN
    IF R.queue = <<>> \/ Len(R.users) >= R.cap
    THEN k
    ELSE LET h == R.queue[Len(R.queue)] IN
         Succeed([k EXCEPT !.res[r].users = Append(@, h),
                           !.res[r].queue = SubSeq(@, 1, Len(@) - 1)], h, None)

(* BaseResource._trigger_put with Resource._do_put: only the head of the  *)
(* queue is looked at, and it becomes a user when a slot is free.          *)
ResTriggerPut(k, r) ==
    LET R == k.res[r] IN
    IF R.queue = <<>> \/ Len(R.users) >= R.cap
    THEN k
    ELSE LET h == Head(R.queue) IN
         Succeed([k EXCEPT !.res[r].users = Append(@, h),
                           !.res[r].queue = Tail(@)], h, None)

(* resource.request(): the request is LastId of the result. *)
ResRequest(k, r) ==
    LET k1 == NewEvent(k, "request", r, None)
        e == LastId(k1)
    IN  ResTriggerPut([k1 EXCEPT !.res[r].queue = Append(@, e),
                                 !.ev[e].cbs = <<Cb("res_get", r)>>], r)

(* The release does not serve the queue. *)
ResRelease_NoTrigger(k, r, req) ==
    LET k1 == NewEvent(k, "release", r, None)
        e == LastId(k1)
    IN  Succeed([k1 EXCEPT !.res[r].users = Remove(@, req),
                           !.obs.rel[r] = k.now], e, None)

(* resource.release(request): the user leaves at once; the queue is       *)
(* served when the Release event is processed (callback res_put).         *)
ResRelease(k, r, req) ==
    LET k1 == NewEvent(k, "release", r, None)
        e == LastId(k1)
    IN  Succeed([k1 EXCEPT !.res[r].users = Remove(@, req),
                           !.ev[e].cbs = <<Cb("res_put", r)>>,
                           !.obs.rel[r] = k.now], e, None)

(* Request.__exit__ at the end of a with block: cancel when still         *)
(* pending, then release.                                                  *)
ResExit(k, r, req) ==
    ResRelease(IF k.ev[req].st = "pending"
               THEN [k EXCEPT !.res[r].queue = Remove(@, req)]
               ELSE k, r, req)

-----------------------------------------------------------------------------
(* simpy.Container *)

Fits(C, a) == (~C.bounded) \/ C.cap - C.level >= a

(* BaseResource._trigger_put with Container._do_put: requests are served  *)
(* from the head for as long as the head fits.                             *)
RECURSIVE ContTriggerPut(_, _)
ContTriggerPut(k, c) ==
    LET C == k.cont[c] IN
    IF C.putq = <<>> THEN k
    ELSE LET h == Head(C.putq)
             a == k.ev[h].arg[1]
         IN  IF Fits(C, a)
             THEN ContTriggerPut(
                      Succeed([k EXCEPT !.cont[c].level = @ + a,
                                        !.cont[c].putq = Tail(@)], h, None), c)
             ELSE k

(* The level is not compared with the amount. *)
ContTriggerGet_NoCheck(k, c) ==
    LET C == k.cont[c] IN
    IF C.getq = <<>> THEN k
    ELSE LET h == Head(C.getq) IN
         Succeed([k EXCEPT !.cont[c].level = @ - k.ev[h].arg[1],
                           !.cont[c].getq = Tail(@)], h, None)

(* The newest request is served, not the head. *)
ContTriggerGet_Newest(k, c) ==
    LET C == k.cont[c] IN
    IF C.getq = <<>> THEN k
    ELSE LET h == C.getq[Len(C.getq)] IN
         IF C.level >= k.ev[h].arg[1]
         THEN Succeed([k EXCEPT !.cont[c].level = @ - k.ev[h].arg[1],
                                !.cont[c].getq = SubSeq(@, 1, Len(@) - 1)], h, None)
         ELSE k

(* Serves at most one get per trigger. *)
ContTriggerGet_OnlyHead(k, c) ==
    LET C == k.cont[c] IN
    IF C.getq = <<>> \/ k.ev[Head(C.getq)].arg[1] > C.level
    THEN k
    ELSE LET h == Head(C.getq) IN
         Succeed([k EXCEPT !.cont[c].level = @ - k.ev[h].arg[1],
                           !.cont[c].getq = Tail(@)], h, None)

(* BaseResource._trigger_get with Container._do_get. *)
RECURSIVE ContTriggerGet(_, _)
ContTriggerGet(k, c) ==
    LET C == k.cont[c] IN
    IF C.getq = <<>> THEN k
    ELSE LET h == Head(C.getq)
             a == k.ev[h].arg[1]
         IN  IF C.level >= a
             THEN ContTriggerGet(
                      Succeed([k EXCEPT !.cont[c].level = @ - a,
                                        !.cont[c].getq = Tail(@)], h, None), c)
             ELSE k

(* The put event does not re-evaluate the waiting gets. *)
ContPut_NoTrigger(k, c, a) ==
    IF a <= 0 THEN [k EXCEPT !.err = "ValueError"]
    ELSE LET k1 == NewEvent(k, "cont_put", c, Some(a))
             e == LastId(k1)
         IN  ContTriggerPut([k1 EXCEPT !.cont[c].putq = Append(@, e)], c)

(* container.put(amount) *)
ContPut(k, c, a) ==
    IF a <= 0 THEN [k EXCEPT !.err = "ValueError"]
    ELSE LET k1 == NewEvent(k, "cont_put", c, Some(a))
             e == LastId(k1)
         IN  ContTriggerPut([k1 EXCEPT !.cont[c].putq = Append(@, e),
                                       !.ev[e].cbs = <<Cb("cont_get", c)>>], c)

(* get(amount) that queues the request whatever the amount. *)
ContGet_NoValidation(k, c, a) ==
    LET k1 == NewEvent(k, "cont_get", c, Some(a))
        e == LastId(k1)
    IN  ContTriggerGet([k1 EXCEPT !.cont[c].getq = Append(@, e),
                                  !.ev[e].cbs = <<Cb("cont_put", c)>>], c)

(* container.get(amount) *)
ContGet(k, c, a) ==
    IF a <= 0 THEN [k EXCEPT !.err = "ValueError"]
    ELSE LET k1 == NewEvent(k, "cont_get", c, Some(a))
             e == LastId(k1)
         IN  ContTriggerGet([k1 EXCEPT !.cont[c].getq = Append(@, e),
                                       !.ev[e].cbs = <<Cb("cont_put", c)>>], c)

-----------------------------------------------------------------------------
(* simpy.Store *)

(* BaseResource._trigger_put with Store._do_put: only the head is served. *)
StoreTriggerPut(k, s) ==
    LET S == k.store[s] IN
    IF S.putq = <<>> \/ (S.bounded /\ Len(S.items) >= S.cap)
    THEN k
    ELSE LET h == Head(S.putq) IN
         Succeed([k EXCEPT !.store[s].items = Append(@, k.ev[h].arg[1]),
                           !.store[s].putq = Tail(@)], h, None)

(* Serves the head get even when the store holds no item. *)
StoreTriggerGet_NoCheck(k, s) ==
    LET S == k.store[s] IN
    IF S.getq = <<>>
    THEN k
    ELSE LET h == Head(S.getq) IN
         Succeed([k EXCEPT !.store[s].items = IF @ = <<>> THEN @ ELSE Tail(@),
                           !.store[s].getq = Tail(@)], h,
                 IF S.items = <<>> THEN None ELSE Some(Head(S.items)))

(* Hands out the newest item instead of the oldest. *)
StoreTriggerGet_Newest(k, s) ==
    LET S == k.store[s] IN
    IF S.getq = <<>> \/ S.items = <<>>
    THEN k
    ELSE LET h == Head(S.getq) IN
         Succeed([k EXCEPT !.store[s].items = SubSeq(@, 1, Len(@) - 1),
                           !.store[s].getq = Tail(@)], h, Some(S.items[Len(S.items)]))

(* BaseResource._trigger_get with Store._do_get: the head receives the    *)
(* oldest item.                                                            *)
StoreTriggerGet(k, s) ==
    LET S == k.store[s] IN
    IF S.getq = <<>> \/ S.items = <<>>
    THEN k
    ELSE LET h == Head(S.getq) IN
         Succeed([k EXCEPT !.store[s].items = Tail(@),
                           !.store[s].getq = Tail(@)], h, Some(Head(S.items)))

(* store.put(item) *)
StorePut(k, s, item) ==
    LET k1 == NewEvent(k, "store_put", s, Some(item))
        e == LastId(k1)
    IN  StoreTriggerPut([k1 EXCEPT !.store[s].putq = Append(@, e),
                                   !.ev[e].cbs = <<Cb("store_get", s)>>], s)

(* store.get() *)
StoreGet(k, s) ==
    LET k1 == NewEvent(k, "store_get", s, None)
        e == LastId(k1)
    IN  StoreTriggerGet([k1 EXCEPT !.store[s].getq = Append(@, e),
                                   !.ev[e].cbs = <<Cb("store_put", s)>>], s)

-----------------------------------------------------------------------------
(* simpy.events.Condition: AnyOf (a | b) and AllOf *)

SameCb(x, y) == x.k = y.k /\ x.a = y.a

RemoveFirst(seq, x) ==
    IF \E i \in 1..Len(seq) : SameCb(seq[i], x)
    THEN LET i == CHOOSE j \in 1..Len(seq) :
                      SameCb(seq[j], x) /\ \A l \in 1..(j - 1) : ~SameCb(seq[l], x)
         IN  SubSeq(seq, 1, i - 1) \o SubSeq(seq, i + 1, Len(seq))
    ELSE seq

(* all_events is evaluated like any_events. *)
Evaluate_AnyForAll(op, events, count) == count > 0 \/ Len(events) = 0

(* Condition.any_events and Condition.all_events *)
Evaluate(op, events, count) ==
    IF op = "all" THEN Len(events) = count ELSE count > 0 \/ Len(events) = 0

(* Condition._check, called once for every member that has been          *)
(* processed while the condition is pending.                               *)
CondCheck(k, c) ==
    IF k.ev[c].st # "pending"
    THEN k
    ELSE LET k1 == [k EXCEPT !.ev[c].arg[1].count = @ + 1]
             a == k1.ev[c].arg[1]
         IN  IF Evaluate(k.ev[c].on, a.events, a.count) THEN Succeed(k1, c, None) ELSE k1

(* Every member gets the check as a callback, processed or not. *)
RECURSIVE CondRegister_OnlyCallbacks(_, _, _)
CondRegister_OnlyCallbacks(k, c, events) ==
    IF events = <<>> THEN k
    ELSE CondRegister_OnlyCallbacks(
             [k EXCEPT !.ev[Head(events)].cbs = Append(@, Cb("check", c))], c, Tail(events))

(* Condition.__init__, the loop over the members: a processed member is   *)
(* checked at once, the others get the check as a callback.                *)
RECURSIVE CondRegister(_, _, _)
CondRegister(k, c, events) ==
    IF events = <<>> THEN k
    ELSE LET e == Head(events)
             k1 == IF k.ev[e].st = "processed"
                   THEN CondCheck(k, c)
                   ELSE [k EXCEPT !.ev[e].cbs = Append(@, Cb("check", c))]
         IN  CondRegister(k1, c, Tail(events))

(* Condition(env, evaluate, events): the condition is LastId of the       *)
(* result.                                                                 *)
Condition(k, op, events) ==
    LET k1 == NewEvent(k, "condition", op, Some([events |-> events, count |-> 0]))
        c == LastId(k1)
    IN  IF events = <<>>
        THEN Succeed(k1, c, Some(<<>>))
        ELSE LET k2 == CondRegister(k1, c, events)
             IN  [k2 EXCEPT !.ev[c].cbs = Append(@, Cb("build_value", c))]

RECURSIVE CondRemoveChecks(_, _, _)
CondRemoveChecks(k, c, events) ==
    IF events = <<>> THEN k
    ELSE LET e == Head(events)
             k1 == IF k.ev[e].st # "processed"
                   THEN [k EXCEPT !.ev[e].cbs = RemoveFirst(@, Cb("check", c))]
                   ELSE k
         IN  CondRemoveChecks(k1, c, Tail(events))

(* The value holds every member that has been triggered, processed or    *)
(* not.                                                                    *)
CondBuildValue_Fired(k, c) ==
    LET events == k.ev[c].arg[1].events
        k1 == CondRemoveChecks(k, c, events)
    IN  [k1 EXCEPT !.ev[c].val =
            Some(SelectSeq(events, LAMBDA e : k.ev[e].st # "pending"))]

(* Condition._build_value with _populate_value: the value holds, in the   *)
(* order of the members, every member that has been processed by now.     *)
CondBuildValue(k, c) ==
    LET events == k.ev[c].arg[1].events
        k1 == CondRemoveChecks(k, c, events)
    IN  [k1 EXCEPT !.ev[c].val =
            Some(SelectSeq(events, LAMBDA e : k.ev[e].st = "processed"))]

-----------------------------------------------------------------------------
(* The run loop *)

Idle == err = "" /\ run = NoRun /\ cbs = <<>>

(* A step that pops any entry of the earliest time. *)
Step_AnyOfEarliest(until) ==
    /\ Idle
    /\ queue # {}
    /\ \E x \in queue :
         /\ x.t = MinEntry(queue).t
         /\ x.t < until
         /\ now' = x.t
         /\ queue' = queue \ {x}
         /\ cur' = x.e
         /\ cbs' = ev[x.e].cbs
         /\ ev' = [ev EXCEPT ![x.e].st = "processed", ![x.e].cbs = <<>>]
    /\ UNCHANGED <<eid, run, err, res, cont, store, proc, m, obs>>

(* A step that also pops the entries due at until. *)
Step_Inclusive(until) ==
    /\ Idle
    /\ queue # {}
    /\ LET x == MinEntry(queue) IN
         /\ x.t <= until
         /\ now' = x.t
         /\ queue' = queue \ {x}
         /\ cur' = x.e
         /\ cbs' = ev[x.e].cbs
         /\ ev' = [ev EXCEPT ![x.e].st = "processed", ![x.e].cbs = <<>>]
    /\ UNCHANGED <<eid, run, err, res, cont, store, proc, m, obs>>

(* BaseEnvironment.step: pop the minimal entry, advance the clock, mark   *)
(* the event processed and take its callbacks.  run(until) stops before   *)
(* the first entry whose time is not below until.                          *)
Step(until) ==
    /\ Idle
    /\ queue # {}
    /\ LET x == MinEntry(queue) IN
         /\ x.t < until
         /\ now' = x.t
         /\ queue' = queue \ {x}
         /\ cur' = x.e
         /\ cbs' = ev[x.e].cbs
         /\ ev' = [ev EXCEPT ![x.e].st = "processed", ![x.e].cbs = <<>>]
    /\ UNCHANGED <<eid, run, err, res, cont, store, proc, m, obs>>

(* run(until): the event scheduled at time until, urgent, ahead of every   *)
(* entry of that time; its callback raises StopSimulation, which ends     *)
(* the run with the clock at until.  It is due when no entry below until  *)
(* is left.                                                                *)
Stop(until) ==
    /\ Idle
    /\ \A x \in queue : x.t >= until
    /\ now' = until
    /\ err' = "StopSimulation"
    /\ UNCHANGED <<eid, queue, ev, cur, cbs, run, res, cont, store, proc, m, obs>>

HeadCb(kind) == err = "" /\ run = NoRun /\ cbs # <<>> /\ Head(cbs).k = kind

(* Process._resume as a callback: the process is sent the event's value. *)
Resume ==
    /\ HeadCb("resume")
    /\ run' = [p |-> Head(cbs).a, val |-> ev[cur].val]
    /\ cbs' = Tail(cbs)
    /\ UNCHANGED <<now, eid, queue, ev, cur, err, res, cont, store, proc, m, obs>>

ResourceCallback ==
    /\ \/ HeadCb("res_put") /\ SetK(ResTriggerPut(K, Head(cbs).a))
       \/ HeadCb("res_get") /\ SetK(K)
    /\ cbs' = Tail(cbs)
    /\ UNCHANGED <<cur, proc, m>>

ContainerCallback ==
    /\ \/ HeadCb("cont_put") /\ SetK(ContTriggerPut(K, Head(cbs).a))
       \/ HeadCb("cont_get") /\ SetK(ContTriggerGet(K, Head(cbs).a))
    /\ cbs' = Tail(cbs)
    /\ UNCHANGED <<cur, proc, m>>

StoreCallback ==
    /\ \/ HeadCb("store_put") /\ SetK(StoreTriggerPut(K, Head(cbs).a))
       \/ HeadCb("store_get") /\ SetK(StoreTriggerGet(K, Head(cbs).a))
    /\ cbs' = Tail(cbs)
    /\ UNCHANGED <<cur, proc, m>>

ConditionCallback ==
    /\ \/ HeadCb("check") /\ SetK(CondCheck(K, Head(cbs).a))
       \/ HeadCb("build_value") /\ SetK(CondBuildValue(K, Head(cbs).a))
    /\ cbs' = Tail(cbs)
    /\ UNCHANGED <<cur, proc, m>>

Running(p, pc) == err = "" /\ run.p = p /\ proc[p].pc = pc

InitK(k) ==
    /\ now = k.now
    /\ eid = k.eid
    /\ queue = k.queue
    /\ ev = k.ev
    /\ run = k.run
    /\ err = k.err
    /\ res = k.res
    /\ cont = k.cont
    /\ store = k.store
    /\ obs = k.obs
    /\ cur = 0
    /\ cbs = <<>>

(* env.process for processes 1..n, in that order; process p gets the      *)
(* process event 2p - 1.                                                   *)
RECURSIVE SpawnAll(_, _)
SpawnAll(k, n) == IF n = 0 THEN k ELSE Spawn(SpawnAll(k, n - 1), n)

NewResource(cap) == [cap |-> cap, users |-> <<>>, queue |-> <<>>]
NewContainer(bounded, cap, init) ==
    [bounded |-> bounded, cap |-> cap, level |-> init, getq |-> <<>>, putq |-> <<>>]
NewStore(bounded, cap) ==
    [bounded |-> bounded, cap |-> cap, items |-> <<>>, getq |-> <<>>, putq |-> <<>>]

-----------------------------------------------------------------------------
(* ModeloMontagem and ModeloMontagem1 (montagem.py).  Ticks of 10 s.      *)

NFunc == 2            \* pairs of workers started by _executa (the code starts 10)
UntilMontagem1 == 250 \* run(until)

CapPecas == 60
InitParafusos == 1010
QtdPecas == 2
QtdParafusos == 4
DurUsinagem == 18                 \* env.timeout(3) minutes
DurFixacao == {4, 5}              \* abs(normal(40 s, 5 s))
DurUniao == {21, 24}              \* uniform(3.5, 4) minutes
DurAbastecimento == {222, 240}    \* abs(normal(40, 3)) minutes
CaixaParafusos == {990, 1009}     \* integers(990, 1010)

Max(a, b) == IF a >= b THEN a ELSE b

(* A random draw: every value of the set while the clock is inside the    *)
(* window of explored variability, the nominal value afterwards.           *)
Sorteio(S, nominal, janela) == IF now < janela THEN S ELSE {nominal}

JanelaMontagem1 == 30

(* ModeloMontagem2 starts its workers all at once; its activities take    *)
(* their nominal durations.                                                *)
JanelaMontagem == IF "evento_usinagem" \in DOMAIN m THEN 0 ELSE JanelaMontagem1

IsFunc1(p) == p \in 2..(2 * NFunc + 1) /\ p % 2 = 0
IsFunc2(p) == p \in 2..(2 * NFunc + 1) /\ p % 2 = 1

ProcMontagem1(p) ==
    IF p = 1 THEN [kind |-> "monitora", pc |-> "start", ev |-> 2 * p - 1]
    ELSE [kind |-> IF p % 2 = 0 THEN "func1" ELSE "func2", pc |-> "start",
          ev |-> 2 * p - 1, t0 |-> 0, req |-> 0]

InitMontagem1 ==
    /\ InitK(SpawnAll(
         [now |-> 0, eid |-> 0, queue |-> {}, ev |-> <<>>, run |-> NoRun, err |-> "",
          res |-> [r \in {"maquina"} |-> NewResource(1)],
          cont |-> [c \in {"pecas", "parafusos", "pecas_fixadas"} |->
                      CASE c = "pecas" -> NewContainer(TRUE, CapPecas, CapPecas)
                        [] c = "parafusos" -> NewContainer(FALSE, 0, InitParafusos)
                        [] OTHER -> NewContainer(FALSE, 0, 0)],
          store |-> <<>>,
          obs |-> [rel |-> [r \in {"maquina"} |-> -1]]],
         2 * NFunc + 1))
    /\ proc = [p \in 1..(2 * NFunc + 1) |-> ProcMontagem1(p)]
    /\ m = [pecas_fixadas |-> 0, pecas_unidas |-> 0,
            tempos_espera_pecas |-> <<>>, tempos_espera_parafusos |-> <<>>,
            tempos_espera_maquina_usinagem |-> <<>>,
            tempos_espera_pecas_fixadas |-> <<>>]

(* _monitora: wait for the next supply *)
Monitora_Aguarda ==
    /\ \/ Running(1, "start")
       \/ Running(1, "parafusos")
    /\ \E d \in DurAbastecimento :
         LET k1 == Timeout(K, d) IN SetK(Yield(k1, 1, LastId(k1)))
    /\ proc' = [proc EXCEPT ![1].pc = "espera"]
    /\ UNCHANGED <<cur, cbs, m>>

(* _monitora: put(60 - level) of pieces *)
Monitora_Pecas ==
    /\ Running(1, "espera")
    /\ LET k1 == ContPut(K, "pecas", CapPecas - cont["pecas"].level)
       IN  SetK(Yield(k1, 1, LastId(k1)))
    /\ proc' = [proc EXCEPT ![1].pc = "pecas"]
    /\ UNCHANGED <<cur, cbs, m>>

(* _monitora: the box of screws, put only when the amount is positive;    *)
(* otherwise the loop goes straight to the next timeout.                   *)
Monitora_Parafusos ==
    /\ Running(1, "pecas")
    /\ \E n \in CaixaParafusos, d \in DurAbastecimento :
         LET level == cont["parafusos"].level
             qtd == Max(n, level) - level
             k1 == IF qtd > 0 THEN ContPut(K, "parafusos", qtd) ELSE Timeout(K, d)
         IN  /\ SetK(Yield(k1, 1, LastId(k1)))
             /\ proc' = [proc EXCEPT ![1].pc = IF qtd > 0 THEN "parafusos" ELSE "espera"]
    /\ UNCHANGED <<cur, cbs, m>>

(* _fixa_pecas / _une_pecas: the activity's timeout *)
Atividade_Inicia ==
  \E c \in DOMAIN proc :
    /\ Running(c, "start")
    /\ proc[c].kind \in {"fixa", "une"}
    /\ \E d \in (IF proc[c].kind = "fixa"
                 THEN Sorteio(DurFixacao, 4, JanelaMontagem)
                 ELSE Sorteio(DurUniao, 22, JanelaMontagem)) :
         LET k1 == Timeout(K, d) IN SetK(Yield(k1, c, LastId(k1)))
    /\ proc' = [proc EXCEPT ![c].pc = "timeout"]
    /\ UNCHANGED <<cur, cbs, m>>

(* _fixa_pecas / _une_pecas: count the pair and return *)
Atividade_Termina ==
  \E c \in DOMAIN proc :
    /\ Running(c, "timeout")
    /\ proc[c].kind \in {"fixa", "une"}
    /\ SetK(Finish(K, proc[c].ev, None))
    /\ m' = IF proc[c].kind = "fixa"
            THEN [m EXCEPT !.pecas_fixadas = @ + 1]
            ELSE [m EXCEPT !.pecas_unidas = @ + 1]
    /\ proc' = [proc EXCEPT ![c].pc = "done"]
    /\ UNCHANGED <<cur, cbs>>

(* A fixer that takes no pieces from the container. *)
Func1_AguardaPecas_SemRetirada ==
  \E p \in DOMAIN proc :
    /\ IsFunc1(p)
    /\ Running(p, "start")
    /\ LET k1 == Timeout(K, 0) IN SetK(Yield(k1, p, LastId(k1)))
    /\ proc' = [proc EXCEPT ![p].pc = "pecas", ![p].t0 = now]
    /\ UNCHANGED <<cur, cbs, m>>

(* _executa_funcionario_1: yield container_pecas.get(2) *)
Func1_AguardaPecas ==
  \E p \in DOMAIN proc :
    /\ IsFunc1(p)
    /\ Running(p, "start")
    /\ LET k1 == ContGet(K, "pecas", QtdPecas) IN SetK(Yield(k1, p, LastId(k1)))
    /\ proc' = [proc EXCEPT ![p].pc = "pecas", ![p].t0 = now]
    /\ UNCHANGED <<cur, cbs, m>>

(* _executa_funcionario_1: yield env.process(_fixa_pecas) *)
Func1_Fixa ==
  \E p \in DOMAIN proc :
    /\ IsFunc1(p)
    /\ Running(p, "pecas")
    /\ LET c == Len(proc) + 1
           k1 == Spawn(K, c)
           ce == Len(ev) + 1
       IN  /\ SetK(Yield(k1, p, ce))
           /\ proc' = Append([proc EXCEPT ![p].pc = "fixa"],
                             [kind |-> "fixa", pc |-> "start", ev |-> ce])
    /\ m' = [m EXCEPT !.tempos_espera_pecas = Append(@, now - proc[p].t0)]
    /\ UNCHANGED <<cur, cbs>>

(* _executa_funcionario_1: with resource_maquina.request(): yield request *)
Func1_Requisita ==
  \E p \in DOMAIN proc :
    /\ IsFunc1(p)
    /\ Running(p, "fixa")
    /\ LET k1 == ResRequest(K, "maquina") IN
         /\ SetK(Yield(k1, p, LastId(k1)))
         /\ proc' = [proc EXCEPT ![p].pc = "maquina", ![p].t0 = now,
                                 ![p].req = LastId(k1)]
    /\ UNCHANGED <<cur, cbs, m>>

(* _executa_funcionario_1: machining, yield env.timeout(3) *)
Func1_Usina ==
  \E p \in DOMAIN proc :
    /\ IsFunc1(p)
    /\ Running(p, "maquina")
    /\ LET k1 == Timeout(K, DurUsinagem) IN SetK(Yield(k1, p, LastId(k1)))
    /\ proc' = [proc EXCEPT ![p].pc = "usinagem"]
    /\ m' = [m EXCEPT !.tempos_espera_maquina_usinagem = Append(@, now - proc[p].t0)]
    /\ UNCHANGED <<cur, cbs>>

(* _executa_funcionario_1: leave the with block (release) and             *)
(* yield container_pecas_fixadas.put(2); the loop then starts over.       *)
Func1_Deposita ==
  \E p \in DOMAIN proc :
    /\ IsFunc1(p)
    /\ Running(p, "usinagem")
    /\ LET k1 == ResExit(K, "maquina", proc[p].req)
           k2 == ContPut(k1, "pecas_fixadas", QtdPecas)
       IN  SetK(Yield(k2, p, LastId(k2)))
    /\ proc' = [proc EXCEPT ![p].pc = "start"]
    /\ UNCHANGED <<cur, cbs, m>>

(* A joiner that does not wait for fixed pieces. *)
Func2_AguardaFixadas_SemEspera ==
  \E p \in DOMAIN proc :
    /\ IsFunc2(p)
    /\ Running(p, "start")
    /\ LET k1 == Timeout(K, 0) IN SetK(Yield(k1, p, LastId(k1)))
    /\ proc' = [proc EXCEPT ![p].pc = "fixadas", ![p].t0 = now]
    /\ UNCHANGED <<cur, cbs, m>>

(* _executa_funcionario_2: yield container_pecas_fixadas.get(2) *)
Func2_AguardaFixadas ==
  \E p \in DOMAIN proc :
    /\ IsFunc2(p)
    /\ Running(p, "start")
    /\ LET k1 == ContGet(K, "pecas_fixadas", QtdPecas) IN SetK(Yield(k1, p, LastId(k1)))
    /\ proc' = [proc EXCEPT ![p].pc = "fixadas", ![p].t0 = now]
    /\ UNCHANGED <<cur, cbs, m>>

(* _executa_funcionario_2: yield container_parafusos.get(4) *)
Func2_AguardaParafusos ==
  \E p \in DOMAIN proc :
    /\ IsFunc2(p)
    /\ Running(p, "fixadas")
    /\ LET k1 == ContGet(K, "parafusos", QtdParafusos) IN SetK(Yield(k1, p, LastId(k1)))
    /\ proc' = [proc EXCEPT ![p].pc = "parafusos", ![p].t0 = now]
    /\ m' = [m EXCEPT !.tempos_espera_pecas_fixadas = Append(@, now - proc[p].t0)]
    /\ UNCHANGED <<cur, cbs>>

(* _executa_funcionario_2: yield env.process(_une_pecas); the loop then   *)
(* starts over.                                                            *)
Func2_Une ==
  \E p \in DOMAIN proc :
    /\ IsFunc2(p)
    /\ Running(p, "parafusos")
    /\ LET c == Len(proc) + 1
           k1 == Spawn(K, c)
           ce == Len(ev) + 1
       IN  /\ SetK(Yield(k1, p, ce))
           /\ proc' = Append([proc EXCEPT ![p].pc = "start"],
                             [kind |-> "une", pc |-> "start", ev |-> ce])
    /\ m' = [m EXCEPT !.tempos_espera_parafusos = Append(@, now - proc[p].t0)]
    /\ UNCHANGED <<cur, cbs>>

StepMontagem1 == Step(UntilMontagem1)
StopMontagem1 == Stop(UntilMontagem1)

NextMontagem1 ==
    \/ StepMontagem1
    \/ StopMontagem1
    \/ Resume
    \/ ResourceCallback
    \/ ContainerCallback
    \/ Monitora_Aguarda
    \/ Monitora_Pecas
    \/ Monitora_Parafusos
    \/ Atividade_Inicia
    \/ Atividade_Termina
    \/ Func1_AguardaPecas
    \/ Func1_Fixa
    \/ Func1_Requisita
    \/ Func1_Usina
    \/ Func1_Deposita
    \/ Func2_AguardaFixadas
    \/ Func2_AguardaParafusos
    \/ Func2_Une

SpecMontagem1 == InitMontagem1 /\ [][NextMontagem1]_vars

(* The same cell run long enough for the supply to come a second time.    *)
UntilMontagem1Longo == 470

StepMontagem1Longo == Step(UntilMontagem1Longo)
StopMontagem1Longo == Stop(UntilMontagem1Longo)

NextMontagem1Longo ==
    \/ StepMontagem1Longo
    \/ StopMontagem1Longo
    \/ Resume
    \/ ResourceCallback
    \/ ContainerCallback
    \/ Monitora_Aguarda
    \/ Monitora_Pecas
    \/ Monitora_Parafusos
    \/ Atividade_Inicia
    \/ Atividade_Termina
    \/ Func1_AguardaPecas
    \/ Func1_Fixa
    \/ Func1_Requisita
    \/ Func1_Usina
    \/ Func1_Deposita
    \/ Func2_AguardaFixadas
    \/ Func2_AguardaParafusos
    \/ Func2_Une

SpecMontagem1Longo == InitMontagem1 /\ [][NextMontagem1Longo]_vars

-----------------------------------------------------------------------------
(* ModeloMontagem2 (montagem.py): fixing and joining workers started in   *)
(* pairs, the joiners released by the start of each machining.             *)

NPares == 21           \* pairs of workers started by _executa (the code starts 100)
UntilMontagem2 == 250  \* run(until)

RECURSIVE SpawnSeq(_, _, _)
SpawnSeq(k, a, b) == IF b < a THEN k ELSE Spawn(SpawnSeq(k, a, b - 1), b)

IsFixacao(p) == proc[p].kind = "fixacao"
IsUniao(p) == proc[p].kind = "uniao"

InitMontagem2 ==
    LET k0 == [now |-> 0, eid |-> 0, queue |-> {}, ev |-> <<>>, run |-> NoRun, err |-> "",
               res |-> [r \in {"maquina"} |-> NewResource(1)],
               cont |-> [c \in {"pecas", "parafusos", "pecas_fixadas"} |->
                           CASE c = "pecas" -> NewContainer(TRUE, CapPecas, CapPecas)
                             [] c = "parafusos" -> NewContainer(FALSE, 0, InitParafusos)
                             [] OTHER -> NewContainer(FALSE, 0, 0)],
               store |-> <<>>,
               obs |-> [rel |-> [r \in {"maquina"} |-> -1]]]
        k1 == Spawn(k0, 1)
        k2 == NewEvent(k1, "event", "usinagem", None)
    IN  /\ InitK(SpawnSeq(k2, 2, 2 * NPares + 1))
        /\ proc = [p \in 1..(2 * NPares + 1) |->
                     IF p = 1 THEN [kind |-> "monitora", pc |-> "start", ev |-> 1]
                     ELSE [kind |-> IF p % 2 = 0 THEN "fixacao" ELSE "uniao",
                           pc |-> "start", ev |-> 2 * p, req |-> 0]]
        /\ m = [pecas_fixadas |-> 0, pecas_unidas |-> 0,
                tempos_espera_pecas |-> <<>>, tempos_espera_parafusos |-> <<>>,
                tempos_espera_maquina_usinagem |-> <<>>,
                tempos_espera_pecas_fixadas |-> <<>>,
                evento_usinagem |-> LastId(k2)]

(* _executa_fixacao: yield container_pecas.get(2) *)
Fixacao_AguardaPecas ==
  \E p \in DOMAIN proc :
    /\ IsFixacao(p)
    /\ Running(p, "start")
    /\ LET k1 == ContGet(K, "pecas", QtdPecas) IN SetK(Yield(k1, p, LastId(k1)))
    /\ proc' = [proc EXCEPT ![p].pc = "pecas"]
    /\ UNCHANGED <<cur, cbs, m>>

(* _executa_fixacao: yield env.process(_fixa_pecas) *)
Fixacao_Fixa ==
  \E p \in DOMAIN proc :
    /\ IsFixacao(p)
    /\ Running(p, "pecas")
    /\ LET c == Len(proc) + 1
           k1 == Spawn(K, c)
           ce == Len(ev) + 1
       IN  /\ SetK(Yield(k1, p, ce))
           /\ proc' = Append([proc EXCEPT ![p].pc = "fixa"],
                             [kind |-> "fixa", pc |-> "start", ev |-> ce])
    /\ UNCHANGED <<cur, cbs, m>>

(* _executa_fixacao: with resource_maquina.request(): yield request *)
Fixacao_Requisita ==
  \E p \in DOMAIN proc :
    /\ IsFixacao(p)
    /\ Running(p, "fixa")
    /\ LET k1 == ResRequest(K, "maquina") IN
         /\ SetK(Yield(k1, p, LastId(k1)))
         /\ proc' = [proc EXCEPT ![p].pc = "maquina", ![p].req = LastId(k1)]
    /\ UNCHANGED <<cur, cbs, m>>

(* The machining starts and fires the event of the joiners, keeping it.   *)
Fixacao_Usina_SemRenovacao ==
  \E p \in DOMAIN proc :
    /\ IsFixacao(p)
    /\ Running(p, "maquina")
    /\ LET k1 == Succeed(K, m.evento_usinagem, None)
           k3 == Timeout(k1, DurUsinagem)
       IN  SetK(Yield(k3, p, LastId(k3)))
    /\ proc' = [proc EXCEPT ![p].pc = "usinagem"]
    /\ UNCHANGED <<cur, cbs, m>>

(* _executa_fixacao: the machining starts: the event of the joiners is    *)
(* fired and replaced by a fresh one, then yield env.timeout(3).           *)
Fixacao_Usina ==
  \E p \in DOMAIN proc :
    /\ IsFixacao(p)
    /\ Running(p, "maquina")
    /\ LET k1 == Succeed(K, m.evento_usinagem, None)
           k2 == NewEvent(k1, "event", "usinagem", None)
           k3 == Timeout(k2, DurUsinagem)
       IN  /\ SetK(Yield(k3, p, LastId(k3)))
           /\ m' = [m EXCEPT !.evento_usinagem = LastId(k2)]
    /\ proc' = [proc EXCEPT ![p].pc = "usinagem"]
    /\ UNCHANGED <<cur, cbs>>

(* _executa_fixacao: leave the with block (release) and                   *)
(* yield container_pecas_fixadas.put(2); the loop then starts over.       *)
Fixacao_Deposita ==
  \E p \in DOMAIN proc :
    /\ IsFixacao(p)
    /\ Running(p, "usinagem")
    /\ LET k1 == ResExit(K, "maquina", proc[p].req)
           k2 == ContPut(k1, "pecas_fixadas", QtdPecas)
       IN  SetK(Yield(k2, p, LastId(k2)))
    /\ proc' = [proc EXCEPT ![p].pc = "start"]
    /\ UNCHANGED <<cur, cbs, m>>

(* A joiner that does not wait for the machining to start. *)
Uniao_AguardaUsinagem_SemEspera ==
  \E p \in DOMAIN proc :
    /\ IsUniao(p)
    /\ Running(p, "start")
    /\ LET k1 == Timeout(K, 0) IN SetK(Yield(k1, p, LastId(k1)))
    /\ proc' = [proc EXCEPT ![p].pc = "usinagem"]
    /\ UNCHANGED <<cur, cbs, m>>

(* _executa_uniao: yield self._evento_usinagem *)
Uniao_AguardaUsinagem ==
  \E p \in DOMAIN proc :
    /\ IsUniao(p)
    /\ Running(p, "start")
    /\ SetK(Yield(K, p, m.evento_usinagem))
    /\ proc' = [proc EXCEPT ![p].pc = "usinagem"]
    /\ UNCHANGED <<cur, cbs, m>>

(* _executa_uniao: yield container_parafusos.get(4) *)
Uniao_AguardaParafusos ==
  \E p \in DOMAIN proc :
    /\ IsUniao(p)
    /\ Running(p, "usinagem")
    /\ LET k1 == ContGet(K, "parafusos", QtdParafusos) IN SetK(Yield(k1, p, LastId(k1)))
    /\ proc' = [proc EXCEPT ![p].pc = "parafusos"]
    /\ UNCHANGED <<cur, cbs, m>>

(* _executa_uniao: yield env.process(_une_pecas); the loop then starts    *)
(* over.                                                                   *)
Uniao_Une ==
  \E p \in DOMAIN proc :
    /\ IsUniao(p)
    /\ Running(p, "parafusos")
    /\ LET c == Len(proc) + 1
           k1 == Spawn(K, c)
           ce == Len(ev) + 1
       IN  /\ SetK(Yield(k1, p, ce))
           /\ proc' = Append([proc EXCEPT ![p].pc = "start"],
                             [kind |-> "une", pc |-> "start", ev |-> ce])
    /\ UNCHANGED <<cur, cbs, m>>

StepMontagem2 == Step(UntilMontagem2)
StopMontagem2 == Stop(UntilMontagem2)

NextMontagem2 ==
    \/ StepMontagem2
    \/ StopMontagem2
    \/ Resume
    \/ ResourceCallback
    \/ ContainerCallback
    \/ Monitora_Aguarda
    \/ Monitora_Pecas
    \/ Monitora_Parafusos
    \/ Atividade_Inicia
    \/ Atividade_Termina
    \/ Fixacao_AguardaPecas
    \/ Fixacao_Fixa
    \/ Fixacao_Requisita
    \/ Fixacao_Usina
    \/ Fixacao_Deposita
    \/ Uniao_AguardaUsinagem
    \/ Uniao_AguardaParafusos
    \/ Uniao_Une

SpecMontagem2 == InitMontagem2 /\ [][NextMontagem2]_vars

(* The same cell with enough pairs of workers for the joiners to use up   *)
(* the screws before the first supply.                                     *)
NParesEscassez == 40   \* pairs of workers started by _executa (the code starts 100)

InitMontagem2Escassez ==
    LET k0 == [now |-> 0, eid |-> 0, queue |-> {}, ev |-> <<>>, run |-> NoRun, err |-> "",
               res |-> [r \in {"maquina"} |-> NewResource(1)],
               cont |-> [c \in {"pecas", "parafusos", "pecas_fixadas"} |->
                           CASE c = "pecas" -> NewContainer(TRUE, CapPecas, CapPecas)
                             [] c = "parafusos" -> NewContainer(FALSE, 0, InitParafusos)
                             [] OTHER -> NewContainer(FALSE, 0, 0)],
               store |-> <<>>,
               obs |-> [rel |-> [r \in {"maquina"} |-> -1]]]
        k1 == Spawn(k0, 1)
        k2 == NewEvent(k1, "event", "usinagem", None)
    IN  /\ InitK(SpawnSeq(k2, 2, 2 * NParesEscassez + 1))
        /\ proc = [p \in 1..(2 * NParesEscassez + 1) |->
                     IF p = 1 THEN [kind |-> "monitora", pc |-> "start", ev |-> 1]
                     ELSE [kind |-> IF p % 2 = 0 THEN "fixacao" ELSE "uniao",
                           pc |-> "start", ev |-> 2 * p, req |-> 0]]
        /\ m = [pecas_fixadas |-> 0, pecas_unidas |-> 0,
                tempos_espera_pecas |-> <<>>, tempos_espera_parafusos |-> <<>>,
                tempos_espera_maquina_usinagem |-> <<>>,
                tempos_espera_pecas_fixadas |-> <<>>,
                evento_usinagem |-> LastId(k2)]

SpecMontagem2Escassez == InitMontagem2Escassez /\ [][NextMontagem2]_vars

-----------------------------------------------------------------------------
(* Container scenario of the specification (section 8, Scenario 2): a     *)
(* producer puts an amount at t=0 and a second one after a delay, a       *)
(* consumer asks for an amount at t=0.  The scenario's own numbers are    *)
(* one of the cases drawn.                                                 *)

CapCenario == 10
UntilCenario == 5      \* run(until)
QtdPut1 == {2, 6, 8}
QtdGet == {2, 8}
QtdPut2 == {4, 6}
Atrasos == {1, 2}

InitCenario2 ==
    LET k0 == [now |-> 0, eid |-> 0, queue |-> {}, ev |-> <<>>, run |-> NoRun, err |-> "",
               res |-> <<>>,
               cont |-> [c \in {"c"} |-> NewContainer(TRUE, CapCenario, 0)],
               store |-> <<>>,
               obs |-> [rel |-> <<>>]]
    IN  /\ InitK(SpawnAll(k0, 2))
        /\ proc = [p \in 1..2 |-> [kind |-> IF p = 1 THEN "produtor" ELSE "consumidor",
                                   pc |-> "start", ev |-> 2 * p - 1]]
        /\ \E a \in QtdPut1, g \in QtdGet, b \in QtdPut2, d \in Atrasos :
             m = [put1 |-> a, get |-> g, put2 |-> b, atraso |-> d,
                  recebido |-> Some("nada")]

(* The producer: put(put1) at t=0. *)
Cenario2_Put1 ==
    /\ Running(1, "start")
    /\ LET k1 == ContPut(K, "c", m.put1) IN SetK(Yield(k1, 1, LastId(k1)))
    /\ proc' = [proc EXCEPT ![1].pc = "put1"]
    /\ UNCHANGED <<cur, cbs, m>>

(* The producer waits for the delay. *)
Cenario2_Espera ==
    /\ Running(1, "put1")
    /\ LET k1 == Timeout(K, m.atraso) IN SetK(Yield(k1, 1, LastId(k1)))
    /\ proc' = [proc EXCEPT ![1].pc = "espera"]
    /\ UNCHANGED <<cur, cbs, m>>

(* The producer: put(put2) after the delay. *)
Cenario2_Put2 ==
    /\ Running(1, "espera")
    /\ LET k1 == ContPut(K, "c", m.put2) IN SetK(Yield(k1, 1, LastId(k1)))
    /\ proc' = [proc EXCEPT ![1].pc = "put2"]
    /\ UNCHANGED <<cur, cbs, m>>

(* The producer ends. *)
Cenario2_Fim ==
    /\ Running(1, "put2")
    /\ SetK(Finish(K, proc[1].ev, None))
    /\ proc' = [proc EXCEPT ![1].pc = "done"]
    /\ UNCHANGED <<cur, cbs, m>>

(* The consumer: get(get) at t=0. *)
Cenario2_Get ==
    /\ Running(2, "start")
    /\ LET k1 == ContGet(K, "c", m.get) IN SetK(Yield(k1, 2, LastId(k1)))
    /\ proc' = [proc EXCEPT ![2].pc = "get"]
    /\ UNCHANGED <<cur, cbs, m>>

(* The consumer is resumed by its get and keeps the value it was sent. *)
Cenario2_Recebe ==
    /\ Running(2, "get")
    /\ SetK(Finish(K, proc[2].ev, None))
    /\ proc' = [proc EXCEPT ![2].pc = "done"]
    /\ m' = [m EXCEPT !.recebido = run.val]
    /\ UNCHANGED <<cur, cbs>>

StepCenario2 == Step(UntilCenario)
StopCenario2 == Stop(UntilCenario)

NextCenario2 ==
    \/ StepCenario2
    \/ StopCenario2
    \/ Resume
    \/ ContainerCallback
    \/ Cenario2_Put1
    \/ Cenario2_Espera
    \/ Cenario2_Put2
    \/ Cenario2_Fim
    \/ Cenario2_Get
    \/ Cenario2_Recebe

SpecCenario2 == InitCenario2 /\ [][NextCenario2]_vars

-----------------------------------------------------------------------------
(* Properties *)

(* Events of type ty on resource x that are triggered by the step. *)
FiredNow(ty, x) ==
    {e \in 1..Len(ev') : /\ ev'[e].ty = ty /\ ev'[e].on = x
                         /\ ev'[e].st # "pending"
                         /\ (e > Len(ev) \/ ev[e].st = "pending")}

(* Events of type ty on resource x created by the step, in creation order. *)
CreatedNow(ty, x) ==
    SelectSeq([i \in 1..(Len(ev') - Len(ev)) |-> Len(ev) + i],
              LAMBDA e : ev'[e].ty = ty /\ ev'[e].on = x)

RECURSIVE SumArg(_, _, _)
SumArg(events, q, n) == IF n = 0 THEN 0 ELSE events[q[n]].arg[1] + SumArg(events, q, n - 1)

C4_LevelWithinBounds ==
    \A c \in DOMAIN cont :
        /\ cont[c].level >= 0
        /\ cont[c].bounded => cont[c].level <= cont[c].cap

(* The pallet has just refilled the pieces to 60 after gets took pieces   *)
(* out, and the fixed-pieces container is empty with a get waiting.       *)
C4_Witness ==
    /\ now > 0
    /\ cont["pecas"].level = CapPecas
    /\ \E e \in DOMAIN ev : ev[e].ty = "cont_put" /\ ev[e].on = "pecas" /\ ev[e].tt = now
    /\ \E e \in DOMAIN ev : ev[e].ty = "cont_get" /\ ev[e].on = "pecas" /\ ev[e].st = "processed"
    /\ cont["pecas_fixadas"].level = 0

ServedAt(c, t) ==
    {e \in 1..Len(ev) : /\ ev[e].ty = "cont_get" /\ ev[e].on = c
                        /\ ev[e].tt = t /\ ev[e].tc < t}

(* C7: after a put the heads of both waiter queues are re-evaluated       *)
(* before the clock advances: the clock never moves while the head get is *)
(* covered by the level or the head put fits, and every get that waited   *)
(* fires at the instant of a put on its container, so the gets a put      *)
(* makes satisfiable fire, in queue order, at the instant of that put.     *)
C7_PutReleasesWaiters ==
    /\ [][now' # now =>
            \A c \in DOMAIN cont :
               /\ cont[c].getq # <<>> => ev[Head(cont[c].getq)].arg[1] > cont[c].level
               /\ cont[c].putq # <<>> => ~Fits(cont[c], ev[Head(cont[c].putq)].arg[1])]_vars
    /\ [](\A e \in 1..Len(ev) :
            (ev[e].ty = "cont_get" /\ ev[e].tt > ev[e].tc) =>
                \E f \in 1..Len(ev) :
                    /\ ev[f].ty = "cont_put" /\ ev[f].on = ev[e].on
                    /\ ev[f].st = "processed" /\ ev[f].tt = ev[e].tt)
    /\ [][\A c \in DOMAIN cont :
            LET F == FiredNow("cont_get", c) IN
            \A e \in F : \A g \in 1..Len(cont[c].getq) :
                cont[c].getq[g] < e => cont[c].getq[g] \in F]_vars

(* C7 witness: the pallet refill to 60 pieces has released, at the time   *)
(* of the refill, more than two fixers that were waiting on get(2), and   *)
(* the clock has moved on.                                                 *)
C7_Witness ==
    \E f \in 1..Len(ev) :
        /\ ev[f].ty = "cont_put" /\ ev[f].on = "pecas" /\ ev[f].arg = Some(CapPecas)
        /\ ev[f].st = "processed"
        /\ Cardinality(ServedAt("pecas", ev[f].tt)) > 2
        /\ now > ev[f].tt

(* The numbers of Scenario 2: capacity 10, put(6), get(8), put(4) at t=1. *)
Cenario2 == m.put1 = 6 /\ m.get = 8 /\ m.put2 = 4 /\ m.atraso = 1

GetsCenario == {e \in 1..Len(ev) : ev[e].ty = "cont_get"}
Puts2Cenario == {e \in 1..Len(ev) : ev[e].ty = "cont_put" /\ ev[e].tc > 0}

(* The scenario up to the value of the get: put(6) at t=0 gives level 6;  *)
(* get(8) is queued and pending throughout t=0; put(4) is made at t=1     *)
(* with the level raised to 10 while the get still waits; the get fires   *)
(* at t=1 and leaves level 2, before the producer goes on.                 *)
Cenario2Niveis ==
    /\ (now = 0 /\ proc[1].pc # "start") => cont["c"].level = 6
    /\ \A e \in GetsCenario :
         /\ now = 0 => (ev[e].st = "pending" /\ cont["c"].getq = <<e>>)
         /\ ev[e].st # "pending" => (ev[e].tt = 1 /\ cont["c"].level = 2)
         /\ (ev[e].st = "pending" /\ Puts2Cenario # {}) => cont["c"].level = 10
    /\ \A f \in Puts2Cenario : ev[f].tc = 1 /\ ev[f].tt = 1
    /\ proc[1].pc = "done" =>
         (cont["c"].level = 2 /\ \A e \in GetsCenario : ev[e].st # "pending")

(* C6: with capacity 10 and level 0, put(6) at t=0 gives level 6; get(8)  *)
(* requested at t=0 is queued and does not fire at t=0; put(4) at t=1     *)
(* raises the level to 10 and the queued get(8) fires at t=1, leaving     *)
(* level 2; the get event carries no value (the consumer is sent None).    *)
C6_Scenario2 ==
    Cenario2 =>
        /\ Cenario2Niveis
        /\ \A e \in GetsCenario : ev[e].val = None
        /\ proc[2].pc = "done" => m.recebido = None

(* C6 as stated: the get fires at t=1 with value 8. *)
C6_AsStated ==
    Cenario2 =>
        /\ Cenario2Niveis
        /\ \A e \in GetsCenario : ev[e].st # "pending" => ev[e].val = Some(8)
        /\ proc[2].pc = "done" => m.recebido = Some(8)

(* C6 witness: the scenario has run to its end: the consumer was resumed  *)
(* at t=1 by its get(8), after waiting from t=0.                           *)
C6_Witness ==
    /\ Cenario2
    /\ proc[1].pc = "done" /\ proc[2].pc = "done"
    /\ now = 1
    /\ cont["c"].level = 2
    /\ \E e \in GetsCenario : ev[e].tc = 0 /\ ev[e].tt = 1 /\ ev[e].st = "processed"

-----------------------------------------------------------------------------
(* ModeloBarExpresso (bar_expresso.py).  Ticks of 6 s (10 per minute).    *)

QtdFuncionarios == 1   \* qtd_funcionarios
QtdCadeiras == 3       \* qtd_cadeiras
QtdCopos == 2          \* qtd_copos
QtdCoposPia == 1       \* qtd_copos_pia
MaxClientes == 4       \* customers the arrival process creates before it stops
UntilBar == 300        \* run(until)
JanelaBar == 11

DurCongelamento == 40             \* env.timeout(4) minutes
DurChegada == {0, 10}             \* exponential(4) minutes
DurColeta == {4, 7}               \* abs(normal(0.7, 0.3)) minutes
DurFreezer == {5}                 \* normal(0.5, 0.1) minutes
DurConsumo == {20, 30}            \* abs(normal(3, 1)) minutes
QtdPedidos == {1, 2}              \* choice([1, 2, 3, 4], p=...)

ProcClientes == 1
ProcPreparo == 2
ProcColeta == 3

RECURSIVE StorePutAll(_, _, _)
StorePutAll(k, s, items) ==
    IF items = <<>> THEN k
    ELSE StorePut(StorePutAll(k, s, SubSeq(items, 1, Len(items) - 1)), s, items[Len(items)])

Funcionario(i) == i
Copo(i) == [id |-> i, limpo |-> TRUE]

InitBar ==
    LET k0 == [now |-> 0, eid |-> 0, queue |-> {}, ev |-> <<>>, run |-> NoRun, err |-> "",
               res |-> [r \in {"cadeiras", "lavagem"} |->
                          IF r = "cadeiras" THEN NewResource(QtdCadeiras)
                          ELSE NewResource(QtdCoposPia)],
               cont |-> <<>>,
               store |-> [s \in {"funcionarios", "copos", "eventos_preparo", "eventos_coleta"} |->
                          CASE s = "funcionarios" -> NewStore(TRUE, QtdFuncionarios)
                            [] s = "copos" -> NewStore(TRUE, QtdCopos)
                            [] OTHER -> NewStore(FALSE, 0)],
               obs |-> [rel |-> [r \in {"cadeiras", "lavagem"} |-> -1],
                        chegadas |-> <<>>, sentados |-> <<>>,
                        pedidos |-> <<>>, coletas |-> <<>>,
                        pedidos_preparo |-> <<>>, preparos |-> <<>>]]
        k1 == StorePutAll(k0, "funcionarios", [i \in 1..QtdFuncionarios |-> Funcionario(i)])
        k2 == StorePutAll(k1, "copos", [i \in 1..QtdCopos |-> Copo(i)])
    IN  /\ InitK(Spawn(Spawn(Spawn(k2, ProcClientes), ProcPreparo), ProcColeta))
        /\ proc = [p \in 1..3 |->
                     [kind |-> CASE p = ProcClientes -> "clientes"
                                 [] p = ProcPreparo -> "preparo"
                                 [] OTHER -> "coleta",
                      pc |-> "start", ev |-> Len(k2.ev) + 2 * p - 1,
                      t0 |-> 0, funcionario |-> 0, pedido |-> None, copo |-> None]]
        /\ m = [no_pedidos_consumidos |-> 0, tempos_estadia_cliente |-> <<>>,
                tempos_espera_sentar_cliente |-> <<>>, tempos_espera_pedir_cliente |-> <<>>,
                tempos_espera_consumir_cliente |-> <<>>, tempos_preparo |-> <<>>]

(* _processa_clientes: start the next customer, then wait for the next    *)
(* arrival.                                                                *)
Clientes_Chegada ==
    /\ \/ Running(ProcClientes, "start")
       \/ Running(ProcClientes, "espera")
    /\ IF Len(proc) - 3 < MaxClientes
       THEN \E d \in Sorteio(DurChegada, 40, JanelaBar) :
              LET c == Len(proc) + 1
                  k1 == Spawn(K, c)
                  k2 == Timeout(k1, d)
              IN  /\ SetK(Yield(k2, ProcClientes, LastId(k2)))
                  /\ proc' = Append([proc EXCEPT ![ProcClientes].pc = "espera"],
                                    [kind |-> "cliente", pc |-> "start", ev |-> Len(ev) + 1,
                                     id |-> c - 3, t0 |-> 0, t1 |-> 0, req |-> 0,
                                     qtd |-> 0, idx |-> 0, copo |-> None,
                                     evento |-> 0, conclusao |-> 0])
       ELSE /\ SetK([K EXCEPT !.run = NoRun])
            /\ proc' = [proc EXCEPT ![ProcClientes].pc = "fim"]
    /\ UNCHANGED <<cur, cbs, m>>

(* _processa_cliente: with resource_cadeiras.request(): yield request *)
Cliente_AguardaCadeira ==
  \E p \in DOMAIN proc :
    /\ proc[p].kind = "cliente"
    /\ Running(p, "start")
    /\ LET k1 == ResRequest(K, "cadeiras")
           k2 == [k1 EXCEPT !.obs.chegadas = Append(@, proc[p].id)]
       IN  /\ SetK(Yield(k2, p, LastId(k1)))
           /\ proc' = [proc EXCEPT ![p].pc = "cadeira", ![p].t0 = now,
                                   ![p].req = LastId(k1)]
    /\ UNCHANGED <<cur, cbs, m>>

(* _processa_cliente, top of the order loop: a fresh event is put in the  *)
(* collection queue.                                                       *)
Pede(k, id_cliente, id_pedido) ==
    LET k1 == NewEvent(k, "event", "coleta", None)
        e == LastId(k1)
        k2 == StorePut(k1, "eventos_coleta", e)
    IN  [k2 EXCEPT !.obs.pedidos = Append(@, <<id_cliente, id_pedido>>)]

(* _processa_cliente: seated; draws the number of orders and places the   *)
(* first one.                                                              *)
Cliente_Senta ==
  \E p \in DOMAIN proc :
    /\ proc[p].kind = "cliente"
    /\ Running(p, "cadeira")
    /\ \E n \in Sorteio(QtdPedidos, 1, JanelaBar) :
         LET k1 == [K EXCEPT !.obs.sentados = Append(@, proc[p].id)]
             k2 == Pede(k1, proc[p].id, 1)
         IN  /\ SetK(Yield(k2, p, LastId(k2)))
             /\ proc' = [proc EXCEPT ![p].pc = "coleta_put", ![p].qtd = n, ![p].idx = 0,
                                     ![p].t1 = now, ![p].evento = LastId(k2) - 1]
    /\ m' = [m EXCEPT !.tempos_espera_sentar_cliente = Append(@, now - proc[p].t0)]
    /\ UNCHANGED <<cur, cbs>>

(* _processa_cliente: the order is in the queue; publish it on the event  *)
(* and wait for the employee to conclude the collection.                   *)
Cliente_InformaColeta ==
  \E p \in DOMAIN proc :
    /\ proc[p].kind = "cliente"
    /\ Running(p, "coleta_put")
    /\ LET k1 == NewEvent(K, "event", "conclusao_coleta", None)
           c == LastId(k1)
           k2 == Succeed(k1, proc[p].evento,
                         Some([id_pedido |-> proc[p].idx + 1, id_cliente |-> proc[p].id,
                               evento_conclusao |-> c]))
       IN  /\ SetK(Yield(k2, p, c))
           /\ proc' = [proc EXCEPT ![p].pc = "coleta", ![p].conclusao = c]
    /\ UNCHANGED <<cur, cbs, m>>

(* _processa_cliente: the order was collected; queue its preparation. *)
Cliente_PedePreparo ==
  \E p \in DOMAIN proc :
    /\ proc[p].kind = "cliente"
    /\ Running(p, "coleta")
    /\ LET k1 == NewEvent(K, "event", "preparo", None)
           e == LastId(k1)
           k2 == StorePut(k1, "eventos_preparo", e)
           k3 == [k2 EXCEPT !.obs.pedidos_preparo = Append(@, e)]
       IN  /\ SetK(Yield(k3, p, LastId(k2)))
           /\ proc' = [proc EXCEPT ![p].pc = "preparo_put", ![p].evento = e,
                                   ![p].t1 = now]
    /\ m' = [m EXCEPT !.tempos_espera_pedir_cliente = Append(@, now - proc[p].t1)]
    /\ UNCHANGED <<cur, cbs>>

(* _processa_cliente: publish the preparation (with the cup in hand, if   *)
(* any) and wait for the drink.                                            *)
Cliente_InformaPreparo ==
  \E p \in DOMAIN proc :
    /\ proc[p].kind = "cliente"
    /\ Running(p, "preparo_put")
    /\ LET k1 == NewEvent(K, "event", "conclusao_preparo", None)
           c == LastId(k1)
           k2 == Succeed(k1, proc[p].evento,
                         Some([copo |-> proc[p].copo, evento_conclusao |-> c]))
       IN  /\ SetK(Yield(k2, p, c))
           /\ proc' = [proc EXCEPT ![p].pc = "preparo", ![p].conclusao = c]
    /\ UNCHANGED <<cur, cbs, m>>

(* _processa_cliente: the drink arrived in a cup; drink it. *)
Cliente_Consome ==
  \E p \in DOMAIN proc :
    /\ proc[p].kind = "cliente"
    /\ Running(p, "preparo")
    /\ \E d \in Sorteio(DurConsumo, 30, JanelaBar) :
         LET k1 == Timeout(K, d) IN SetK(Yield(k1, p, LastId(k1)))
    /\ proc' = [proc EXCEPT ![p].pc = "consome", ![p].copo = run.val]
    /\ m' = [m EXCEPT !.tempos_espera_consumir_cliente = Append(@, now - proc[p].t1)]
    /\ UNCHANGED <<cur, cbs>>

(* A customer who leaves with the cup instead of putting it back. *)
Cliente_Proximo_SemDevolucao ==
  \E p \in DOMAIN proc :
    /\ proc[p].kind = "cliente"
    /\ Running(p, "consome")
    /\ IF proc[p].idx + 1 < proc[p].qtd
       THEN LET k1 == Pede(K, proc[p].id, proc[p].idx + 2)
            IN  /\ SetK(Yield(k1, p, LastId(k1)))
                /\ proc' = [proc EXCEPT ![p].pc = "coleta_put", ![p].idx = @ + 1,
                                        ![p].t1 = now, ![p].evento = LastId(k1) - 1]
       ELSE LET k1 == ResExit(K, "cadeiras", proc[p].req)
                k2 == Timeout(k1, 0)
            IN  /\ SetK(Yield(k2, p, LastId(k2)))
                /\ proc' = [proc EXCEPT ![p].pc = "devolve", ![p].idx = @ + 1]
    /\ m' = [m EXCEPT !.no_pedidos_consumidos = @ + 1]
    /\ UNCHANGED <<cur, cbs>>

(* _processa_cliente: after the drink, the next order; after the last     *)
(* one the chair is released and the cup goes back to the store.           *)
Cliente_Proximo ==
  \E p \in DOMAIN proc :
    /\ proc[p].kind = "cliente"
    /\ Running(p, "consome")
    /\ IF proc[p].idx + 1 < proc[p].qtd
       THEN LET k1 == Pede(K, proc[p].id, proc[p].idx + 2)
            IN  /\ SetK(Yield(k1, p, LastId(k1)))
                /\ proc' = [proc EXCEPT ![p].pc = "coleta_put", ![p].idx = @ + 1,
                                        ![p].t1 = now, ![p].evento = LastId(k1) - 1]
       ELSE LET k1 == ResExit(K, "cadeiras", proc[p].req)
                k2 == StorePut(k1, "copos", proc[p].copo[1])
            IN  /\ SetK(Yield(k2, p, LastId(k2)))
                /\ proc' = [proc EXCEPT ![p].pc = "devolve", ![p].idx = @ + 1]
    /\ m' = [m EXCEPT !.no_pedidos_consumidos = @ + 1]
    /\ UNCHANGED <<cur, cbs>>

(* _processa_cliente: the cup is back; the customer leaves. *)
Cliente_Sai ==
  \E p \in DOMAIN proc :
    /\ proc[p].kind = "cliente"
    /\ Running(p, "devolve")
    /\ SetK(Finish(K, proc[p].ev, None))
    /\ proc' = [proc EXCEPT ![p].pc = "done"]
    /\ m' = [m EXCEPT !.tempos_estadia_cliente = Append(@, now - proc[p].t0)]
    /\ UNCHANGED <<cur, cbs>>

(* _processa_funcionario__coleta: wait for an event in the collection     *)
(* queue.                                                                  *)
Coleta_Inicia ==
    /\ Running(ProcColeta, "start")
    /\ LET k1 == StoreGet(K, "eventos_coleta") IN SetK(Yield(k1, ProcColeta, LastId(k1)))
    /\ proc' = [proc EXCEPT ![ProcColeta].pc = "get"]
    /\ UNCHANGED <<cur, cbs, m>>

(* _processa_funcionario__coleta: coleta = yield evento_coleta *)
Coleta_AguardaPedido ==
    /\ Running(ProcColeta, "get")
    /\ SetK(Yield(K, ProcColeta, run.val[1]))
    /\ proc' = [proc EXCEPT ![ProcColeta].pc = "evento"]
    /\ UNCHANGED <<cur, cbs, m>>

(* _processa_funcionario__coleta: funcionario = yield store.get() *)
Coleta_AguardaFuncionario ==
    /\ Running(ProcColeta, "evento")
    /\ LET k1 == StoreGet(K, "funcionarios")
           k2 == [k1 EXCEPT !.obs.coletas =
                     Append(@, <<run.val[1].id_cliente, run.val[1].id_pedido>>)]
       IN  SetK(Yield(k2, ProcColeta, LastId(k1)))
    /\ proc' = [proc EXCEPT ![ProcColeta].pc = "funcionario", ![ProcColeta].pedido = run.val]
    /\ UNCHANGED <<cur, cbs, m>>

(* _processa_funcionario__coleta: the employee takes the order. *)
Coleta_Atende ==
    /\ Running(ProcColeta, "funcionario")
    /\ \E d \in Sorteio(DurColeta, 7, JanelaBar) :
         LET k1 == Timeout(K, d) IN SetK(Yield(k1, ProcColeta, LastId(k1)))
    /\ proc' = [proc EXCEPT ![ProcColeta].pc = "coletando",
                            ![ProcColeta].funcionario = run.val[1]]
    /\ UNCHANGED <<cur, cbs, m>>

(* _processa_funcionario__coleta: the employee goes back to the store. *)
Coleta_Libera ==
    /\ Running(ProcColeta, "coletando")
    /\ LET k1 == StorePut(K, "funcionarios", proc[ProcColeta].funcionario)
       IN  SetK(Yield(k1, ProcColeta, LastId(k1)))
    /\ proc' = [proc EXCEPT ![ProcColeta].pc = "devolve"]
    /\ UNCHANGED <<cur, cbs, m>>

(* _processa_funcionario__coleta: conclude the collection and wait for    *)
(* the next event.                                                         *)
Coleta_Conclui ==
    /\ Running(ProcColeta, "devolve")
    /\ LET k1 == Succeed(K, proc[ProcColeta].pedido[1].evento_conclusao, None)
           k2 == StoreGet(k1, "eventos_coleta")
       IN  SetK(Yield(k2, ProcColeta, LastId(k2)))
    /\ proc' = [proc EXCEPT ![ProcColeta].pc = "get"]
    /\ UNCHANGED <<cur, cbs, m>>

(* _processa_funcionario__preparo: wait for an event in the preparation   *)
(* queue.                                                                  *)
Preparo_Inicia ==
    /\ Running(ProcPreparo, "start")
    /\ LET k1 == StoreGet(K, "eventos_preparo") IN SetK(Yield(k1, ProcPreparo, LastId(k1)))
    /\ proc' = [proc EXCEPT ![ProcPreparo].pc = "get"]
    /\ UNCHANGED <<cur, cbs, m>>

(* _processa_funcionario__preparo: preparo = yield evento_preparo *)
Preparo_AguardaPedido ==
    /\ Running(ProcPreparo, "get")
    /\ SetK(Yield([K EXCEPT !.obs.preparos = Append(@, run.val[1])], ProcPreparo, run.val[1]))
    /\ proc' = [proc EXCEPT ![ProcPreparo].pc = "evento"]
    /\ UNCHANGED <<cur, cbs, m>>

(* _processa_funcionario__preparo: funcionario = yield store.get() *)
Preparo_AguardaFuncionario ==
    /\ Running(ProcPreparo, "evento")
    /\ LET k1 == StoreGet(K, "funcionarios") IN SetK(Yield(k1, ProcPreparo, LastId(k1)))
    /\ proc' = [proc EXCEPT ![ProcPreparo].pc = "funcionario", ![ProcPreparo].pedido = run.val]
    /\ UNCHANGED <<cur, cbs, m>>

(* _processa_funcionario__preparo, once the cup is known: a dirty cup     *)
(* goes to the sink, a clean one straight to the freezer queue.            *)
SegueCopo(k, copo) ==
    IF ~copo.limpo
    THEN [k |-> ResRequest(k, "lavagem"), pc |-> "lavagem"]
    ELSE [k |-> Timeout(k, 0), pc |-> "freezer_q"]

(* _processa_funcionario__preparo: with the employee, take a cup from the *)
(* store unless the customer already holds one.                            *)
Preparo_Copo ==
    /\ Running(ProcPreparo, "funcionario")
    /\ LET pedido == proc[ProcPreparo].pedido[1] IN
       IF pedido.copo = None
       THEN LET k1 == StoreGet(K, "copos")
            IN  /\ SetK(Yield(k1, ProcPreparo, LastId(k1)))
                /\ proc' = [proc EXCEPT ![ProcPreparo].pc = "copo", ![ProcPreparo].t0 = now,
                                        ![ProcPreparo].funcionario = run.val[1]]
       ELSE LET n == SegueCopo(K, pedido.copo[1])
            IN  /\ SetK(Yield(n.k, ProcPreparo, LastId(n.k)))
                /\ proc' = [proc EXCEPT ![ProcPreparo].pc = n.pc, ![ProcPreparo].t0 = now,
                                        ![ProcPreparo].funcionario = run.val[1],
                                        ![ProcPreparo].copo = pedido.copo]
    /\ UNCHANGED <<cur, cbs, m>>

(* _processa_funcionario__preparo: copo = novo_copo *)
Preparo_OcupaCopo ==
    /\ Running(ProcPreparo, "copo")
    /\ LET n == SegueCopo(K, run.val[1])
       IN  /\ SetK(Yield(n.k, ProcPreparo, LastId(n.k)))
           /\ proc' = [proc EXCEPT ![ProcPreparo].pc = n.pc, ![ProcPreparo].copo = run.val]
    /\ UNCHANGED <<cur, cbs, m>>

(* _processa_funcionario__preparo: at the sink, wash (timeout(0)). *)
Preparo_Lava ==
    /\ Running(ProcPreparo, "lavagem")
    /\ LET k1 == Timeout(K, 0) IN SetK(Yield(k1, ProcPreparo, LastId(k1)))
    /\ proc' = [proc EXCEPT ![ProcPreparo].pc = "lavando"]
    /\ UNCHANGED <<cur, cbs, m>>

(* _processa_funcionario__preparo: leave the sink, the cup is clean. *)
Preparo_Lavou ==
    /\ Running(ProcPreparo, "lavando")
    /\ LET req == CHOOSE e \in 1..Len(ev) :
                     /\ ev[e].ty = "request" /\ ev[e].on = "lavagem"
                     /\ \A f \in 1..Len(ev) :
                          (ev[f].ty = "request" /\ ev[f].on = "lavagem") => f <= e
           k1 == ResExit(K, "lavagem", req)
           k2 == Timeout(k1, 0)
       IN  SetK(Yield(k2, ProcPreparo, LastId(k2)))
    /\ proc' = [proc EXCEPT ![ProcPreparo].pc = "freezer_q",
                            ![ProcPreparo].copo = Some([@[1] EXCEPT !.limpo = TRUE])]
    /\ UNCHANGED <<cur, cbs, m>>

(* _processa_funcionario__preparo: put the cup in the freezer. *)
Preparo_Freezer ==
    /\ Running(ProcPreparo, "freezer_q")
    /\ \E d \in Sorteio(DurFreezer, 5, JanelaBar) :
         LET k1 == Timeout(K, d) IN SetK(Yield(k1, ProcPreparo, LastId(k1)))
    /\ proc' = [proc EXCEPT ![ProcPreparo].pc = "freezer"]
    /\ UNCHANGED <<cur, cbs, m>>

(* A preparation that keeps the employee. *)
Preparo_Libera_SemDevolucao ==
    /\ Running(ProcPreparo, "freezer")
    /\ LET k1 == Timeout(K, 0)
       IN  SetK(Yield(k1, ProcPreparo, LastId(k1)))
    /\ proc' = [proc EXCEPT ![ProcPreparo].pc = "devolve"]
    /\ UNCHANGED <<cur, cbs, m>>

(* _processa_funcionario__preparo: the employee goes back to the store. *)
Preparo_Libera ==
    /\ Running(ProcPreparo, "freezer")
    /\ LET k1 == StorePut(K, "funcionarios", proc[ProcPreparo].funcionario)
       IN  SetK(Yield(k1, ProcPreparo, LastId(k1)))
    /\ proc' = [proc EXCEPT ![ProcPreparo].pc = "devolve"]
    /\ UNCHANGED <<cur, cbs, m>>

(* _processa_funcionario__preparo: the cup freezes for 4 minutes. *)
Preparo_Congela ==
    /\ Running(ProcPreparo, "devolve")
    /\ LET k1 == Timeout(K, DurCongelamento) IN SetK(Yield(k1, ProcPreparo, LastId(k1)))
    /\ proc' = [proc EXCEPT ![ProcPreparo].pc = "congela"]
    /\ UNCHANGED <<cur, cbs, m>>

(* _processa_funcionario__preparo: hand the cup to the customer and wait  *)
(* for the next event.                                                     *)
Preparo_Conclui ==
    /\ Running(ProcPreparo, "congela")
    /\ LET k1 == Succeed(K, proc[ProcPreparo].pedido[1].evento_conclusao,
                         proc[ProcPreparo].copo)
           k2 == StoreGet(k1, "eventos_preparo")
       IN  SetK(Yield(k2, ProcPreparo, LastId(k2)))
    /\ proc' = [proc EXCEPT ![ProcPreparo].pc = "get"]
    /\ m' = [m EXCEPT !.tempos_preparo = Append(@, now - proc[ProcPreparo].t0)]
    /\ UNCHANGED <<cur, cbs>>

StepBar == Step(UntilBar)
StopBar == Stop(UntilBar)

(* No cup is ever dirty (limpo is only ever assigned True), so the sink   *)
(* steps Preparo_Lava and Preparo_Lavou are never enabled and are left    *)
(* out of the next-state relation.                                         *)
NextBar ==
    \/ StepBar
    \/ StopBar
    \/ Resume
    \/ ResourceCallback
    \/ StoreCallback
    \/ Clientes_Chegada
    \/ Cliente_AguardaCadeira
    \/ Cliente_Senta
    \/ Cliente_InformaColeta
    \/ Cliente_PedePreparo
    \/ Cliente_InformaPreparo
    \/ Cliente_Consome
    \/ Cliente_Proximo
    \/ Cliente_Sai
    \/ Coleta_Inicia
    \/ Coleta_AguardaPedido
    \/ Coleta_AguardaFuncionario
    \/ Coleta_Atende
    \/ Coleta_Libera
    \/ Coleta_Conclui
    \/ Preparo_Inicia
    \/ Preparo_AguardaPedido
    \/ Preparo_AguardaFuncionario
    \/ Preparo_Copo
    \/ Preparo_OcupaCopo
    \/ Preparo_Freezer
    \/ Preparo_Libera
    \/ Preparo_Congela
    \/ Preparo_Conclui

SpecBar == InitBar /\ [][NextBar]_vars

-----------------------------------------------------------------------------
(* Properties of the bar *)

IsPrefix(s, t) == Len(s) <= Len(t) /\ \A i \in 1..Len(s) : s[i] = t[i]

(* C8: the item count of every Store stays between 0 and its capacity; a  *)
(* get fires only in a step that starts with an item in the store, which  *)
(* it receives, and a put fires only in a step that starts with spare     *)
(* capacity.                                                               *)
C8_StoreWithinBounds ==
    /\ [](\A s \in DOMAIN store :
            /\ Len(store[s].items) >= 0
            /\ store[s].bounded => Len(store[s].items) <= store[s].cap)
    /\ [][\A s \in DOMAIN store : \A e \in FiredNow("store_get", s) :
            /\ store[s].items # <<>>
            /\ ev'[e].val # None]_vars
    /\ [][\A s \in DOMAIN store : \A e \in FiredNow("store_put", s) :
            store[s].bounded => Len(store[s].items) < store[s].cap]_vars

(* C8 witness: the employee store is full again after an employee was     *)
(* taken by a get that had to wait for it and put back.                    *)
C8_Witness ==
    /\ Len(store["funcionarios"].items) = QtdFuncionarios
    /\ \E g \in 1..Len(ev) :
         /\ ev[g].ty = "store_get" /\ ev[g].on = "funcionarios"
         /\ ev[g].st = "processed" /\ ev[g].tt > ev[g].tc
    /\ \E e \in 1..Len(ev) :
         /\ ev[e].ty = "store_put" /\ ev[e].on = "funcionarios"
         /\ ev[e].st = "processed" /\ ev[e].tt > 0

-----------------------------------------------------------------------------
(* ModeloLavanderia (lavanderia.py).  Ticks of one minute.                *)

MaxConsumidores == 12     \* customers the arrival process creates before it stops
UntilLavanderia == 120    \* run(until)
JanelaLavanderia == 11

CapMaquinas == 7
CapCestos == 12
CapSecadoras == 2
DurLavagem == 25
DurCarga == 2
DurChegadaLav == {0, 10}       \* exponential(10)
DurDescarga == {1, 4}          \* uniform(1, 4)
DurTransporte == {3, 5}        \* uniform(3, 5)
DurSecagem == {0, 10}          \* max(0, normal(10, 4))

InitLavanderia ==
    LET R == {"maquinas", "cestos", "secadoras"}
        k0 == [now |-> 0, eid |-> 0, queue |-> {}, ev |-> <<>>, run |-> NoRun, err |-> "",
               res |-> [r \in R |-> CASE r = "maquinas" -> NewResource(CapMaquinas)
                                      [] r = "cestos" -> NewResource(CapCestos)
                                      [] OTHER -> NewResource(CapSecadoras)],
               cont |-> <<>>, store |-> <<>>,
               obs |-> [rel |-> [r \in R |-> -1]]]
    IN  /\ InitK(Spawn(k0, 1))
        /\ proc = <<[kind |-> "inicia", pc |-> "start", ev |-> 1]>>
        /\ m = [tempo_total_lavagem |-> 0, tempo_total_secagem |-> 0,
                tempo_total_chegada |-> 0, tempo_total_cesto |-> 0, num_eventos |-> 0,
                num_cestos_usados |-> 0, ultimo_tempo_chegada |-> 0]

(* inicia: a customer arrives, its process is started, and the next       *)
(* arrival is awaited.                                                     *)
Inicia_Chegada ==
    /\ \/ Running(1, "start")
       \/ Running(1, "espera")
    /\ IF Len(proc) - 1 < MaxConsumidores
       THEN \E d \in Sorteio(DurChegadaLav, 10, JanelaLavanderia) :
              LET c == Len(proc) + 1
                  k1 == Spawn(K, c)
                  k2 == Timeout(k1, d)
              IN  /\ SetK(Yield(k2, 1, LastId(k2)))
                  /\ proc' = Append([proc EXCEPT ![1].pc = "espera"],
                                    [kind |-> "lavagem", pc |-> "start", ev |-> Len(ev) + 1,
                                     id |-> c - 1, req |-> 0, tempo_inicio |-> 0,
                                     tempo_cesto_inicio |-> 0, tempo_secagem_inicio |-> 0])
                  /\ m' = [m EXCEPT !.tempo_total_chegada =
                                       IF m.num_eventos > 0
                                       THEN @ + (now - m.ultimo_tempo_chegada) ELSE @,
                                    !.ultimo_tempo_chegada = now]
       ELSE /\ SetK([K EXCEPT !.run = NoRun])
            /\ proc' = [proc EXCEPT ![1].pc = "fim"]
            /\ m' = m
    /\ UNCHANGED <<cur, cbs>>

(* The customer does not wait for the machine to be granted. *)
Lavagem_AguardaMaquina_SemEspera ==
  \E p \in DOMAIN proc :
    /\ proc[p].kind = "lavagem"
    /\ Running(p, "start")
    /\ LET k1 == ResRequest(K, "maquinas")
       IN  /\ SetK([k1 EXCEPT !.run = [p |-> p, val |-> None]])
           /\ proc' = [proc EXCEPT ![p].pc = "maquina", ![p].tempo_inicio = now,
                                   ![p].req = LastId(k1)]
    /\ UNCHANGED <<cur, cbs, m>>

(* _processo_lavagem: with resource_maquinas.request(): yield request *)
Lavagem_AguardaMaquina ==
  \E p \in DOMAIN proc :
    /\ proc[p].kind = "lavagem"
    /\ Running(p, "start")
    /\ LET k1 == ResRequest(K, "maquinas")
       IN  /\ SetK(Yield(k1, p, LastId(k1)))
           /\ proc' = [proc EXCEPT ![p].pc = "maquina", ![p].tempo_inicio = now,
                                   ![p].req = LastId(k1)]
    /\ UNCHANGED <<cur, cbs, m>>

(* _processo_lavagem: uses the machine for 25 minutes. *)
Lavagem_Lava ==
  \E p \in DOMAIN proc :
    /\ proc[p].kind = "lavagem"
    /\ Running(p, "maquina")
    /\ LET k1 == Timeout(K, DurLavagem) IN SetK(Yield(k1, p, LastId(k1)))
    /\ proc' = [proc EXCEPT ![p].pc = "lavando"]
    /\ UNCHANGED <<cur, cbs, m>>

(* _processo_lavagem: leaves the machine and asks for a basket. *)
Lavagem_AguardaCesto ==
  \E p \in DOMAIN proc :
    /\ proc[p].kind = "lavagem"
    /\ Running(p, "lavando")
    /\ LET k1 == ResExit(K, "maquinas", proc[p].req)
           k2 == ResRequest(k1, "cestos")
       IN  /\ SetK(Yield(k2, p, LastId(k2)))
           /\ proc' = [proc EXCEPT ![p].pc = "cesto", ![p].tempo_cesto_inicio = now,
                                   ![p].req = LastId(k2)]
    /\ UNCHANGED <<cur, cbs, m>>

(* _processo_lavagem: unloads the clothes into the basket. *)
Lavagem_Descarrega ==
  \E p \in DOMAIN proc :
    /\ proc[p].kind = "lavagem"
    /\ Running(p, "cesto")
    /\ \E d \in Sorteio(DurDescarga, 4, JanelaLavanderia) :
         LET k1 == Timeout(K, d) IN SetK(Yield(k1, p, LastId(k1)))
    /\ proc' = [proc EXCEPT ![p].pc = "descarrega"]
    /\ UNCHANGED <<cur, cbs, m>>

(* _processo_lavagem: carries the basket to the dryer. *)
Lavagem_Transporta ==
  \E p \in DOMAIN proc :
    /\ proc[p].kind = "lavagem"
    /\ Running(p, "descarrega")
    /\ \E d \in Sorteio(DurTransporte, 5, JanelaLavanderia) :
         LET k1 == Timeout(K, d) IN SetK(Yield(k1, p, LastId(k1)))
    /\ proc' = [proc EXCEPT ![p].pc = "transporta"]
    /\ UNCHANGED <<cur, cbs, m>>

(* _processo_lavagem: gives the basket back and asks for a dryer. *)
Lavagem_AguardaSecadora ==
  \E p \in DOMAIN proc :
    /\ proc[p].kind = "lavagem"
    /\ Running(p, "transporta")
    /\ LET k1 == ResExit(K, "cestos", proc[p].req)
           k2 == ResRequest(k1, "secadoras")
       IN  /\ SetK(Yield(k2, p, LastId(k2)))
           /\ proc' = [proc EXCEPT ![p].pc = "secadora", ![p].req = LastId(k2)]
    /\ m' = [m EXCEPT !.tempo_total_cesto = @ + (now - proc[p].tempo_cesto_inicio),
                      !.num_cestos_usados = @ + 1]
    /\ UNCHANGED <<cur, cbs>>

(* _processo_lavagem: loads the dryer for 2 minutes. *)
Lavagem_Carrega ==
  \E p \in DOMAIN proc :
    /\ proc[p].kind = "lavagem"
    /\ Running(p, "secadora")
    /\ LET k1 == Timeout(K, DurCarga) IN SetK(Yield(k1, p, LastId(k1)))
    /\ proc' = [proc EXCEPT ![p].pc = "carrega"]
    /\ UNCHANGED <<cur, cbs, m>>

(* _processo_lavagem: dries. *)
Lavagem_Seca ==
  \E p \in DOMAIN proc :
    /\ proc[p].kind = "lavagem"
    /\ Running(p, "carrega")
    /\ \E d \in Sorteio(DurSecagem, 10, JanelaLavanderia) :
         LET k1 == Timeout(K, d) IN SetK(Yield(k1, p, LastId(k1)))
    /\ proc' = [proc EXCEPT ![p].pc = "seca", ![p].tempo_secagem_inicio = now]
    /\ UNCHANGED <<cur, cbs, m>>

(* _processo_lavagem: the drying is over; totals are updated and the      *)
(* dryer is given back.                                                    *)
Lavagem_Termina ==
  \E p \in DOMAIN proc :
    /\ proc[p].kind = "lavagem"
    /\ Running(p, "seca")
    /\ SetK(Finish(ResExit(K, "secadoras", proc[p].req), proc[p].ev, None))
    /\ proc' = [proc EXCEPT ![p].pc = "done"]
    /\ m' = [m EXCEPT !.tempo_total_lavagem = @ + DurLavagem,
                      !.tempo_total_secagem = @ + (now - proc[p].tempo_secagem_inicio),
                      !.num_eventos = @ + 1]
    /\ UNCHANGED <<cur, cbs>>

StepLavanderia == Step(UntilLavanderia)
StopLavanderia == Stop(UntilLavanderia)

NextLavanderia ==
    \/ StepLavanderia
    \/ StopLavanderia
    \/ Resume
    \/ ResourceCallback
    \/ Inicia_Chegada
    \/ Lavagem_AguardaMaquina
    \/ Lavagem_Lava
    \/ Lavagem_AguardaCesto
    \/ Lavagem_Descarrega
    \/ Lavagem_Transporta
    \/ Lavagem_AguardaSecadora
    \/ Lavagem_Carrega
    \/ Lavagem_Seca
    \/ Lavagem_Termina

SpecLavanderia == InitLavanderia /\ [][NextLavanderia]_vars

-----------------------------------------------------------------------------
(* Properties of the laundromat *)

(* Customers inside the with block of resource r: resumed by the grant    *)
(* and not yet past the end of the block.                                  *)
Usando(r) ==
    LET dentro == CASE r = "maquinas" -> {"lavando"}
                    [] r = "cestos" -> {"descarrega", "transporta"}
                    [] OTHER -> {"carrega", "seca"}
        aguarda == CASE r = "maquinas" -> "maquina"
                     [] r = "cestos" -> "cesto"
                     [] OTHER -> "secadora"
    IN  {p \in DOMAIN proc :
            /\ proc[p].kind = "lavagem"
            /\ \/ proc[p].pc \in dentro
               \/ proc[p].pc = aguarda /\ run.p = p}

(* C1: in every reachable state each Resource has between 0 and capacity  *)
(* holders: its list of users holds distinct granted requests, no more    *)
(* than its capacity, and the customers inside the with block of the      *)
(* resource are exactly the holders of those requests.                     *)
C1_HoldersWithinCapacity ==
    \A r \in DOMAIN res :
        /\ Len(res[r].users) >= 0
        /\ Len(res[r].users) <= res[r].cap
        /\ \A i, j \in 1..Len(res[r].users) : res[r].users[i] = res[r].users[j] => i = j
        /\ Cardinality(Usando(r)) <= res[r].cap
        /\ \A p \in Usando(r) : \E i \in 1..Len(res[r].users) : res[r].users[i] = proc[p].req

(* C1 witness: the 7 machines are all in use, one of them by a customer   *)
(* that had to wait for it, with a customer still queued, while both      *)
(* dryers are in use.                                                      *)
C1_Witness ==
    /\ Len(res["maquinas"].users) = CapMaquinas
    /\ Cardinality(Usando("maquinas")) = CapMaquinas
    /\ res["maquinas"].queue # <<>>
    /\ \E p \in Usando("maquinas") : ev[proc[p].req].tt > ev[proc[p].req].tc
    /\ Len(res["secadoras"].users) = CapSecadoras

-----------------------------------------------------------------------------
(* ModeloCentroDistribuicao (centro_distribuicao.py).  Ticks of one       *)
(* minute; volumes in units of a quarter of a cubic metre.                 *)

QtdVans == 3             \* qtd_vans
QtdMaxCaminhoes == 2     \* qtd_max_caminhoes
TamanhoCaminhao == 4     \* tamanho_caminhao
TamanhoVan == 1          \* tamanho_van
TamanhoDeposito == 6     \* tamanho_deposito
UntilCD == 1930          \* run(until)
JanelaVolumes == 1       \* the first truck load is drawn, the later ones are nominal
JanelaChegada == 486     \* the time between trucks is drawn until the first opening
JanelaEntrega == 915     \* delivery durations are drawn on the first afternoon

QtdFuncionariosCD == 6   \* qtd_funcionarios
EquipeDescarga == 4      \* crew split in the combined case
EquipeCarga == 2
Dia == 1440              \* env.now % 24
HoraInicio == 480        \* _hora_inicio_funcionamento, 08:00
HoraFinal == 960         \* plus _duracao_funcionamento, 16:00
DurDescargaCaixa == 5    \* 1 / velocidade_descarga hours, 12 boxes an hour
DurCargaCaixa == 3       \* 1 / velocidade_carga hours, 20 boxes an hour

Volumes == {1, 2}                  \* triangular(0.03, 0.12, 1)
DurChegadaCaminhao == {3, 900, 960}   \* exponential(15) hours
DurEntrega == {240, 1012}          \* abs(normal(4, 1)) hours

ProcEquipe == 1          \* _processa_funcionarios__carregamento
ProcCaminhao == 2        \* _processa_caminhao
ProcSeparacao == 3       \* _processa_funcionarios__
IsVan(p) == p \in 4..(3 + QtdVans)

RECURSIVE Soma(_)
Soma(s) == IF s = <<>> THEN 0 ELSE Head(s) + Soma(Tail(s))

(* _processa_caminhao, the inner loop: volumes are drawn until the next   *)
(* one would not fit.                                                      *)
CargasCaminhao ==
    {v \in UNION {[1..n -> Volumes] : n \in 0..TamanhoCaminhao} :
        /\ Soma(v) <= TamanhoCaminhao
        /\ \E x \in Volumes : Soma(v) + x > TamanhoCaminhao}

CargaNominal == [i \in 1..TamanhoCaminhao |-> 1]

(* np.array_split(volumes, n): n consecutive chunks, the first            *)
(* len % n of them one element longer.                                     *)
ArraySplit(volumes, n) ==
    LET q == Len(volumes) \div n
        r == Len(volumes) % n
        ini(i) == (i - 1) * q + (IF i - 1 < r THEN i - 1 ELSE r)
    IN  [i \in 1..n |-> SubSeq(volumes, ini(i) + 1, ini(i + 1))]

(* A wait that takes a truck arriving after the closing hour as arriving  *)
(* in time.                                                                *)
TempoAguardoAbertura_SemVirada(t) ==
    LET hora_atual == t % Dia IN
    IF hora_atual < HoraInicio THEN HoraInicio - hora_atual ELSE 0

(* Time the truck waits for the centre to open. *)
TempoAguardoAbertura(t) ==
    LET hora_atual == t % Dia IN
    IF hora_atual < HoraInicio THEN HoraInicio - hora_atual
    ELSE IF hora_atual > HoraFinal THEN Dia - hora_atual + HoraInicio
    ELSE 0

(* _processa_funcionarios__: a load may only start if it ends before the  *)
(* closing hour, len(volumes) / qtd_funcionarios / velocidade_carga hours *)
(* from now.                                                               *)
TerminaAntesDoFim(t, volumes) ==
    (t % Dia) * QtdFuncionariosCD + Len(volumes) * DurCargaCaixa
        <= HoraFinal * QtdFuncionariosCD

ResCD == {"descarga", "estacionamento", "carga_vans"}

ProcCD(p) ==
    CASE p = ProcEquipe -> [kind |-> "equipe", pc |-> "start", ev |-> 4 + 2 * p - 1,
                            eventos |-> <<>>, execs |-> <<>>]
      [] p = ProcCaminhao -> [kind |-> "caminhao", pc |-> "start", ev |-> 4 + 2 * p - 1,
                              volumes |-> <<>>, req_estacionamento |-> 0,
                              req_descarga |-> 0, t0 |-> 0]
      [] p = ProcSeparacao -> [kind |-> "separacao", pc |-> "start", ev |-> 4 + 2 * p - 1,
                               volumes |-> <<>>, volume |-> 0, carregamento |-> None]
      [] OTHER -> [kind |-> "van", pc |-> "start", ev |-> 4 + 2 * p - 1, id |-> p - 3,
                   req |-> 0, t0 |-> 0, carregamento |-> None]

(* inicia: the deposit, the three resources, the four gate events, and    *)
(* the crew, the truck, the picking team and the vans, in that order.     *)
IniciaCD(tamanho_deposito) ==
    LET k0 == [now |-> 0, eid |-> 0, queue |-> {}, ev |-> <<>>, run |-> NoRun, err |-> "",
               res |-> [r \in ResCD |-> CASE r = "descarga" -> NewResource(1)
                                          [] r = "estacionamento" -> NewResource(QtdMaxCaminhoes)
                                          [] OTHER -> NewResource(1)],
               cont |-> [c \in {"deposito"} |-> NewContainer(TRUE, tamanho_deposito, 0)],
               store |-> [s \in {"deposito", "eventos_carregamento"} |-> NewStore(FALSE, 0)],
               obs |-> [rel |-> [r \in ResCD |-> -1]]]
        k1 == NewEvent(k0, "event", "iniciar_carga", None)
        k2 == NewEvent(k1, "event", "iniciar_descarga", None)
        k3 == NewEvent(k2, "event", "finalizar_carga", None)
        k4 == NewEvent(k3, "event", "finalizar_descarga", None)
    IN  /\ InitK(SpawnAll(k4, 3 + QtdVans))
        /\ proc = [p \in 1..(3 + QtdVans) |-> ProcCD(p)]
        /\ m = [evento_iniciar_carga |-> 1, evento_iniciar_descarga |-> 2,
                evento_finalizar_carga |-> 3, evento_finalizar_descarga |-> 4,
                tempos_espera_estacionar |-> <<>>, tempos_espera_abertura |-> <<>>,
                tempos_espera_descarregar |-> <<>>, tempos_descarregar |-> <<>>,
                tempos_espera_area_carga |-> <<>>, tempos_espera_carregar |-> <<>>,
                tempos_carregar |-> <<>>]

InitCD == IniciaCD(TamanhoDeposito)

(* A centre whose depot holds exactly one truck load. *)
InitCDJusto == IniciaCD(TamanhoCaminhao)

(* The crew: _processa_funcionarios__carregamento *)

NovoExecutor(kind, pe, volumes, qtd_funcionarios) ==
    [kind |-> kind, pc |-> "start", ev |-> pe, volumes |-> volumes,
     qtd_funcionarios |-> qtd_funcionarios, restantes |-> volumes]

Contem(eventos, e) == \E i \in 1..Len(eventos) : eventos[i] = e

(* yield self._evento_iniciar_carga | self._evento_iniciar_descarga *)
Equipe_Aguarda ==
    /\ \/ Running(ProcEquipe, "start")
       \/ Running(ProcEquipe, "executa")
    /\ LET k1 == Condition(K, "any", <<m.evento_iniciar_carga, m.evento_iniciar_descarga>>)
       IN  SetK(Yield(k1, ProcEquipe, LastId(k1)))
    /\ proc' = [proc EXCEPT ![ProcEquipe].pc = "aguarda"]
    /\ UNCHANGED <<cur, cbs, m>>

(* match dict(eventos): the cases are tried in the order of the source,   *)
(* and a mapping pattern matches when its keys are present, whatever      *)
(* other keys the mapping holds.                                           *)
Equipe_Atende ==
    /\ Running(ProcEquipe, "aguarda")
    /\ LET eventos == run.val[1]
           d == m.evento_iniciar_descarga
           c == m.evento_iniciar_carga
           n == Len(proc)
           pe == LastId(K) + 1
           k1 == Spawn(K, n + 1)
           k2 == Spawn(k1, n + 2)
           k3 == Condition(k2, "all", <<pe, pe + 2>>)
           k4 == Condition(K, "any", <<c, d>>)
           eq(pc, execs) == [proc EXCEPT ![ProcEquipe].pc = pc,
                                         ![ProcEquipe].eventos = eventos,
                                         ![ProcEquipe].execs = execs]
       IN  IF Contem(eventos, d)
           THEN /\ SetK(Yield(k1, ProcEquipe, pe))
                /\ proc' = Append(eq("executa", <<n + 1>>),
                                  NovoExecutor("exec_descarga", pe, ev[d].val[1],
                                               QtdFuncionariosCD))
           ELSE IF Contem(eventos, c)
           THEN /\ SetK(Yield(k1, ProcEquipe, pe))
                /\ proc' = Append(eq("executa", <<n + 1>>),
                                  NovoExecutor("exec_carga", pe, ev[c].val[1],
                                               QtdFuncionariosCD))
           ELSE IF Contem(eventos, d) /\ Contem(eventos, c)
           THEN /\ SetK(Yield(k3, ProcEquipe, LastId(k3)))
                /\ proc' = eq("executa", <<n + 1, n + 2>>)
                             \o <<NovoExecutor("exec_descarga", pe, ev[d].val[1],
                                               EquipeDescarga),
                                  NovoExecutor("exec_carga", pe + 2, ev[c].val[1],
                                               EquipeCarga)>>
           ELSE /\ SetK(Yield(k4, ProcEquipe, LastId(k4)))
                /\ proc' = eq("aguarda", <<>>)
    /\ UNCHANGED <<cur, cbs, m>>

NovosFuncionarios(kind, pe, partes) ==
    [i \in 1..Len(partes) |-> [kind |-> kind, pc |-> "start", ev |-> pe + 2 * (i - 1),
                               volumes |-> partes[i], restantes |-> partes[i]]]

(* _executa_funcionarios__descarga and __carga, up to the AllOf: one      *)
(* worker process per chunk of the volumes.                                *)
Executor_Inicia ==
  \E p \in DOMAIN proc :
    /\ proc[p].kind \in {"exec_descarga", "exec_carga"}
    /\ Running(p, "start")
    /\ LET q == proc[p].qtd_funcionarios
           n == Len(proc)
           pe == LastId(K) + 1
           k1 == SpawnSeq(K, n + 1, n + q)
           k2 == Condition(k1, "all", [i \in 1..q |-> pe + 2 * (i - 1)])
       IN  /\ SetK(Yield(k2, p, LastId(k2)))
           /\ proc' = [proc EXCEPT ![p].pc = "aguarda_funcionarios"]
                        \o NovosFuncionarios(IF proc[p].kind = "exec_descarga"
                                             THEN "func_descarga" ELSE "func_carga",
                                             pe, ArraySplit(proc[p].volumes, q))
    /\ UNCHANGED <<cur, cbs, m>>

(* _executa_funcionarios__descarga: for volume in volumes: yield          *)
(* container_deposito.put(volume) ...; after the last one the unloading   *)
(* is signalled as finished and both unloading gates are renewed.         *)
Descarga_Deposita ==
  \E p \in DOMAIN proc :
    /\ proc[p].kind = "exec_descarga"
    /\ \/ Running(p, "aguarda_funcionarios")
       \/ Running(p, "store_put")
    /\ IF proc[p].restantes # <<>>
       THEN LET k1 == ContPut(K, "deposito", Head(proc[p].restantes))
            IN  /\ SetK(Yield(k1, p, LastId(k1)))
                /\ proc' = [proc EXCEPT ![p].pc = "container_put"]
                /\ m' = m
       ELSE LET k1 == Succeed(K, m.evento_finalizar_descarga, None)
                k2 == NewEvent(k1, "event", "iniciar_descarga", None)
                k3 == NewEvent(k2, "event", "finalizar_descarga", None)
            IN  /\ SetK(Finish(k3, proc[p].ev, None))
                /\ proc' = [proc EXCEPT ![p].pc = "done"]
                /\ m' = [m EXCEPT !.evento_iniciar_descarga = LastId(k2),
                                  !.evento_finalizar_descarga = LastId(k3)]
    /\ UNCHANGED <<cur, cbs>>

(* ... yield store_deposito.put(volume) *)
Descarga_Guarda ==
  \E p \in DOMAIN proc :
    /\ proc[p].kind = "exec_descarga"
    /\ Running(p, "container_put")
    /\ LET k1 == StorePut(K, "deposito", Head(proc[p].restantes))
       IN  SetK(Yield(k1, p, LastId(k1)))
    /\ proc' = [proc EXCEPT ![p].pc = "store_put", ![p].restantes = Tail(@)]
    /\ UNCHANGED <<cur, cbs, m>>

(* A loading crew that signals the end and keeps both loading gates. *)
Carga_Finaliza_SemRenovacao ==
  \E p \in DOMAIN proc :
    /\ proc[p].kind = "exec_carga"
    /\ Running(p, "aguarda_funcionarios")
    /\ SetK(Finish(Succeed(K, m.evento_finalizar_carga, None), proc[p].ev, None))
    /\ proc' = [proc EXCEPT ![p].pc = "done"]
    /\ UNCHANGED <<cur, cbs, m>>

(* _executa_funcionarios__carga after the AllOf: the loading is signalled *)
(* as finished and both loading gates are renewed.                         *)
Carga_Finaliza ==
  \E p \in DOMAIN proc :
    /\ proc[p].kind = "exec_carga"
    /\ Running(p, "aguarda_funcionarios")
    /\ LET k1 == Succeed(K, m.evento_finalizar_carga, None)
           k2 == NewEvent(k1, "event", "iniciar_carga", None)
           k3 == NewEvent(k2, "event", "finalizar_carga", None)
       IN  /\ SetK(Finish(k3, proc[p].ev, None))
           /\ m' = [m EXCEPT !.evento_iniciar_carga = LastId(k2),
                             !.evento_finalizar_carga = LastId(k3)]
    /\ proc' = [proc EXCEPT ![p].pc = "done"]
    /\ UNCHANGED <<cur, cbs>>

(* _processa_funcionario__descarga: one timeout per box. *)
FuncDescarga_Descarrega ==
  \E p \in DOMAIN proc :
    /\ proc[p].kind = "func_descarga"
    /\ \/ Running(p, "start")
       \/ Running(p, "caixa")
    /\ IF proc[p].restantes # <<>>
       THEN /\ LET k1 == Timeout(K, DurDescargaCaixa) IN SetK(Yield(k1, p, LastId(k1)))
            /\ proc' = [proc EXCEPT ![p].pc = "caixa", ![p].restantes = Tail(@)]
       ELSE /\ SetK(Finish(K, proc[p].ev, None))
            /\ proc' = [proc EXCEPT ![p].pc = "done"]
    /\ UNCHANGED <<cur, cbs, m>>

(* _processa_funcionario__carga: one timeout for the whole chunk. *)
FuncCarga_Carrega ==
  \E p \in DOMAIN proc :
    /\ proc[p].kind = "func_carga"
    /\ Running(p, "start")
    /\ LET k1 == Timeout(K, Len(proc[p].volumes) * DurCargaCaixa)
       IN  SetK(Yield(k1, p, LastId(k1)))
    /\ proc' = [proc EXCEPT ![p].pc = "carrega"]
    /\ UNCHANGED <<cur, cbs, m>>

FuncCarga_Termina ==
  \E p \in DOMAIN proc :
    /\ proc[p].kind = "func_carga"
    /\ Running(p, "carrega")
    /\ SetK(Finish(K, proc[p].ev, None))
    /\ proc' = [proc EXCEPT ![p].pc = "done"]
    /\ UNCHANGED <<cur, cbs, m>>

(* The truck: _processa_caminhao *)

(* The load is drawn and the truck travels to the centre. *)
Caminhao_Viaja(k) ==
    \E volumes \in Sorteio(CargasCaminhao, CargaNominal, JanelaVolumes) :
      \E d \in Sorteio(DurChegadaCaminhao, 900, JanelaChegada) :
        LET k1 == Timeout(k, d)
        IN  /\ SetK(Yield(k1, ProcCaminhao, LastId(k1)))
            /\ proc' = [proc EXCEPT ![ProcCaminhao].pc = "viaja",
                                    ![ProcCaminhao].volumes = volumes]

Caminhao_Parte ==
    /\ Running(ProcCaminhao, "start")
    /\ Caminhao_Viaja(K)
    /\ UNCHANGED <<cur, cbs, m>>

(* with resource_estacionamento_caminhoes.request(): yield request *)
Caminhao_Chega ==
    /\ Running(ProcCaminhao, "viaja")
    /\ LET k1 == ResRequest(K, "estacionamento")
       IN  /\ SetK(Yield(k1, ProcCaminhao, LastId(k1)))
           /\ proc' = [proc EXCEPT ![ProcCaminhao].pc = "vaga",
                                   ![ProcCaminhao].req_estacionamento = LastId(k1),
                                   ![ProcCaminhao].t0 = now]
    /\ UNCHANGED <<cur, cbs, m>>

Caminhao_Estaciona ==
    /\ Running(ProcCaminhao, "vaga")
    /\ LET k1 == Timeout(K, 0) IN SetK(Yield(k1, ProcCaminhao, LastId(k1)))
    /\ proc' = [proc EXCEPT ![ProcCaminhao].pc = "estaciona"]
    /\ m' = [m EXCEPT !.tempos_espera_estacionar = Append(@, now - proc[ProcCaminhao].t0)]
    /\ UNCHANGED <<cur, cbs>>

(* Waits for the centre to open. *)
Caminhao_AguardaAbertura ==
    /\ Running(ProcCaminhao, "estaciona")
    /\ LET k1 == Timeout(K, TempoAguardoAbertura(now))
       IN  SetK(Yield(k1, ProcCaminhao, LastId(k1)))
    /\ proc' = [proc EXCEPT ![ProcCaminhao].pc = "abertura", ![ProcCaminhao].t0 = now]
    /\ UNCHANGED <<cur, cbs, m>>

Caminhao_Libera ==
    /\ Running(ProcCaminhao, "abertura")
    /\ LET k1 == Timeout(K, 0) IN SetK(Yield(k1, ProcCaminhao, LastId(k1)))
    /\ proc' = [proc EXCEPT ![ProcCaminhao].pc = "libera"]
    /\ m' = [m EXCEPT !.tempos_espera_abertura = Append(@, now - proc[ProcCaminhao].t0)]
    /\ UNCHANGED <<cur, cbs>>

(* with resource_descarga_caminhoes.request(): yield request *)
Caminhao_AguardaArea ==
    /\ Running(ProcCaminhao, "libera")
    /\ LET k1 == ResRequest(K, "descarga")
       IN  /\ SetK(Yield(k1, ProcCaminhao, LastId(k1)))
           /\ proc' = [proc EXCEPT ![ProcCaminhao].pc = "area",
                                   ![ProcCaminhao].req_descarga = LastId(k1),
                                   ![ProcCaminhao].t0 = now]
    /\ UNCHANGED <<cur, cbs, m>>

Caminhao_Ocupa ==
    /\ Running(ProcCaminhao, "area")
    /\ LET k1 == Timeout(K, 0) IN SetK(Yield(k1, ProcCaminhao, LastId(k1)))
    /\ proc' = [proc EXCEPT ![ProcCaminhao].pc = "ocupa"]
    /\ m' = [m EXCEPT !.tempos_espera_descarregar = Append(@, now - proc[ProcCaminhao].t0)]
    /\ UNCHANGED <<cur, cbs>>

(* The start-unload gate is signalled with the load, and the truck waits  *)
(* for the end of the unloading.                                           *)
Caminhao_AguardaDescarga ==
    /\ Running(ProcCaminhao, "ocupa")
    /\ LET k1 == Succeed(K, m.evento_iniciar_descarga, Some(proc[ProcCaminhao].volumes))
       IN  SetK(Yield(k1, ProcCaminhao, m.evento_finalizar_descarga))
    /\ proc' = [proc EXCEPT ![ProcCaminhao].pc = "descarrega", ![ProcCaminhao].t0 = now]
    /\ UNCHANGED <<cur, cbs, m>>

(* The unloading is over: both with blocks are left, inner first, and the *)
(* next truck is on its way.                                               *)
Caminhao_Sai ==
    /\ Running(ProcCaminhao, "descarrega")
    /\ Caminhao_Viaja(ResExit(ResExit(K, "descarga", proc[ProcCaminhao].req_descarga),
                              "estacionamento", proc[ProcCaminhao].req_estacionamento))
    /\ m' = [m EXCEPT !.tempos_descarregar = Append(@, now - proc[ProcCaminhao].t0)]
    /\ UNCHANGED <<cur, cbs>>

(* The picking team: _processa_funcionarios__ *)

Separacao_Inicia ==
    /\ \/ Running(ProcSeparacao, "start")
       \/ Running(ProcSeparacao, "aguarda_conclusao")
    /\ LET k1 == StoreGet(K, "deposito") IN SetK(Yield(k1, ProcSeparacao, LastId(k1)))
    /\ proc' = [proc EXCEPT ![ProcSeparacao].pc = "pega_volume",
                            ![ProcSeparacao].volumes = <<>>]
    /\ UNCHANGED <<cur, cbs, m>>

(* volume = yield store_deposito.get(); yield container_deposito.get(volume) *)
Separacao_Retira ==
    /\ Running(ProcSeparacao, "pega_volume")
    /\ LET k1 == ContGet(K, "deposito", run.val[1])
       IN  SetK(Yield(k1, ProcSeparacao, LastId(k1)))
    /\ proc' = [proc EXCEPT ![ProcSeparacao].pc = "retira",
                            ![ProcSeparacao].volume = run.val[1]]
    /\ UNCHANGED <<cur, cbs, m>>

(* volumes.append(volume); with enough volume for a van the load is       *)
(* approved if it ends before the closing hour, and dropped otherwise.    *)
Separacao_Acumula ==
    /\ Running(ProcSeparacao, "retira")
    /\ LET volumes == Append(proc[ProcSeparacao].volumes, proc[ProcSeparacao].volume)
           k1 == StoreGet(K, "deposito")
           k2 == NewEvent(K, "event", "conclusao", None)
           carregamento == [volumes |-> volumes, evento_conclusao |-> LastId(k2)]
           k3 == StorePut(k2, "eventos_carregamento", carregamento)
       IN  IF Soma(volumes) < TamanhoVan
           THEN /\ SetK(Yield(k1, ProcSeparacao, LastId(k1)))
                /\ proc' = [proc EXCEPT ![ProcSeparacao].pc = "pega_volume",
                                        ![ProcSeparacao].volumes = volumes]
           ELSE IF TerminaAntesDoFim(now, volumes)
           THEN /\ SetK(Yield(k3, ProcSeparacao, LastId(k3)))
                /\ proc' = [proc EXCEPT ![ProcSeparacao].pc = "entrega_carregamento",
                                        ![ProcSeparacao].volumes = volumes,
                                        ![ProcSeparacao].carregamento = Some(carregamento)]
           ELSE /\ SetK(Yield(k1, ProcSeparacao, LastId(k1)))
                /\ proc' = [proc EXCEPT ![ProcSeparacao].pc = "pega_volume",
                                        ![ProcSeparacao].volumes = <<>>]
    /\ UNCHANGED <<cur, cbs, m>>

(* yield carregamento.evento_conclusao *)
Separacao_AguardaConclusao ==
    /\ Running(ProcSeparacao, "entrega_carregamento")
    /\ SetK(Yield(K, ProcSeparacao, proc[ProcSeparacao].carregamento[1].evento_conclusao))
    /\ proc' = [proc EXCEPT ![ProcSeparacao].pc = "aguarda_conclusao"]
    /\ UNCHANGED <<cur, cbs, m>>

(* The vans: _processa_van *)

(* with resource_carga_vans.request(): yield request *)
Van_AguardaPonto ==
  \E p \in DOMAIN proc :
    /\ IsVan(p)
    /\ \/ Running(p, "start")
       \/ Running(p, "entrega")
    /\ LET k1 == ResRequest(K, "carga_vans")
       IN  /\ SetK(Yield(k1, p, LastId(k1)))
           /\ proc' = [proc EXCEPT ![p].pc = "ponto", ![p].req = LastId(k1),
                                   ![p].t0 = now]
    /\ UNCHANGED <<cur, cbs, m>>

Van_Ocupa ==
  \E p \in DOMAIN proc :
    /\ IsVan(p)
    /\ Running(p, "ponto")
    /\ LET k1 == Timeout(K, 0) IN SetK(Yield(k1, p, LastId(k1)))
    /\ proc' = [proc EXCEPT ![p].pc = "ocupa"]
    /\ m' = [m EXCEPT !.tempos_espera_area_carga = Append(@, now - proc[p].t0)]
    /\ UNCHANGED <<cur, cbs>>

(* carregamento = yield store_eventos_carregamento.get() *)
Van_AguardaCarregamento ==
  \E p \in DOMAIN proc :
    /\ IsVan(p)
    /\ Running(p, "ocupa")
    /\ LET k1 == StoreGet(K, "eventos_carregamento") IN SetK(Yield(k1, p, LastId(k1)))
    /\ proc' = [proc EXCEPT ![p].pc = "aguarda_carregamento", ![p].t0 = now]
    /\ UNCHANGED <<cur, cbs, m>>

(* The start-load gate is signalled with the volumes, and the van waits   *)
(* for the end of the loading.                                             *)
Van_AguardaCarga ==
  \E p \in DOMAIN proc :
    /\ IsVan(p)
    /\ Running(p, "aguarda_carregamento")
    /\ LET k1 == Succeed(K, m.evento_iniciar_carga, Some(run.val[1].volumes))
       IN  SetK(Yield(k1, p, m.evento_finalizar_carga))
    /\ proc' = [proc EXCEPT ![p].pc = "carrega", ![p].carregamento = run.val,
                            ![p].t0 = now]
    /\ m' = [m EXCEPT !.tempos_espera_carregar = Append(@, now - proc[p].t0)]
    /\ UNCHANGED <<cur, cbs>>

(* The load is reported as concluded, the loading point is left and the   *)
(* van delivers.                                                           *)
Van_Entrega ==
  \E p \in DOMAIN proc :
    /\ IsVan(p)
    /\ Running(p, "carrega")
    /\ \E d \in Sorteio(DurEntrega, 240, JanelaEntrega) :
         LET k1 == Succeed(K, proc[p].carregamento[1].evento_conclusao, None)
             k2 == ResExit(k1, "carga_vans", proc[p].req)
             k3 == Timeout(k2, d)
         IN  SetK(Yield(k3, p, LastId(k3)))
    /\ proc' = [proc EXCEPT ![p].pc = "entrega"]
    /\ m' = [m EXCEPT !.tempos_carregar = Append(@, now - proc[p].t0)]
    /\ UNCHANGED <<cur, cbs>>

StepCD == Step(UntilCD)
StopCD == Stop(UntilCD)

NextCD ==
    \/ StepCD
    \/ StopCD
    \/ Resume
    \/ ResourceCallback
    \/ ContainerCallback
    \/ StoreCallback
    \/ ConditionCallback
    \/ Equipe_Aguarda
    \/ Equipe_Atende
    \/ Executor_Inicia
    \/ Descarga_Deposita
    \/ Descarga_Guarda
    \/ Carga_Finaliza
    \/ FuncDescarga_Descarrega
    \/ FuncCarga_Carrega
    \/ FuncCarga_Termina
    \/ Caminhao_Parte
    \/ Caminhao_Chega
    \/ Caminhao_Estaciona
    \/ Caminhao_AguardaAbertura
    \/ Caminhao_Libera
    \/ Caminhao_AguardaArea
    \/ Caminhao_Ocupa
    \/ Caminhao_AguardaDescarga
    \/ Caminhao_Sai
    \/ Separacao_Inicia
    \/ Separacao_Retira
    \/ Separacao_Acumula
    \/ Separacao_AguardaConclusao
    \/ Van_AguardaPonto
    \/ Van_Ocupa
    \/ Van_AguardaCarregamento
    \/ Van_AguardaCarga
    \/ Van_Entrega

SpecCD == InitCD /\ [][NextCD]_vars

SpecCDJusto == InitCDJusto /\ [][NextCD]_vars

-----------------------------------------------------------------------------
(* Properties of the distribution centre *)

Requests(r) == {e \in 1..Len(ev) : ev[e].ty = "request" /\ ev[e].on = r}

(* C2: requests on a Resource are granted in the order in which they were *)
(* issued.  A request that waited is granted only as the head of the      *)
(* queue, and a new request is granted at once only when nobody waits;    *)
(* when a release is processed while requests wait and a slot is free,    *)
(* the head of the queue is the one granted; and of two requests on the   *)
(* same Resource the later one is never granted while the earlier one is  *)
(* pending, so the grant times follow the issue order.                     *)
C2_GrantsInIssueOrder ==
    /\ [][\A r \in DOMAIN res : \A e \in FiredNow("request", r) :
            IF e <= Len(ev)
            THEN e = Head(res[r].queue)
            ELSE res[r].queue = <<>>]_vars
    /\ [][\A r \in DOMAIN res :
            (/\ HeadCb("res_put") /\ Head(cbs).a = r /\ cbs' = Tail(cbs)
             /\ res[r].queue # <<>> /\ Len(res[r].users) < res[r].cap)
            => /\ FiredNow("request", r) = {Head(res[r].queue)}
               /\ res'[r].queue = Tail(res[r].queue)]_vars
    /\ [](\A r \in DOMAIN res : \A e1, e2 \in Requests(r) :
            (e1 < e2 /\ ev[e2].st # "pending")
            => (ev[e1].st # "pending" /\ ev[e1].tt <= ev[e2].tt))

(* Three vans asked for the single loading point at the same time; the    *)
(* two that waited have been granted it, the second after the third       *)
(* request was already waiting, in the order of their requests.           *)
C2_Witness ==
    \E e1, e2, e3 \in Requests("carga_vans") :
        /\ e1 < e2 /\ e2 < e3
        /\ ev[e1].tc = ev[e3].tc /\ ev[e2].tc = ev[e3].tc
        /\ ev[e1].st = "processed" /\ ev[e2].st = "processed" /\ ev[e3].st = "processed"
        /\ ev[e1].tt = ev[e1].tc
        /\ ev[e2].tt > ev[e2].tc
        /\ ev[e3].tt > ev[e2].tt

(* The mapping the crew received from its last any-of wait holds both     *)
(* the start-unload and the start-load gate.                               *)
AmbosEventos ==
    LET eventos == proc[ProcEquipe].eventos IN
    /\ \E i \in 1..Len(eventos) : ev[eventos[i]].on = "iniciar_descarga"
    /\ \E i \in 1..Len(eventos) : ev[eventos[i]].on = "iniciar_carga"

(* C10: when the mapping holds both gates the crew has started an         *)
(* unloading with 4 workers and a loading with 2 workers, and it is back  *)
(* at its any-of wait only when both have finished.                        *)
C10_SplitsCrew ==
    AmbosEventos =>
        LET execs == proc[ProcEquipe].execs IN
        /\ Len(execs) = 2
        /\ proc[execs[1]].kind = "exec_descarga"
        /\ proc[execs[1]].qtd_funcionarios = EquipeDescarga
        /\ proc[execs[2]].kind = "exec_carga"
        /\ proc[execs[2]].qtd_funcionarios = EquipeCarga
        /\ proc[ProcEquipe].pc = "aguarda"
             => proc[execs[1]].pc = "done" /\ proc[execs[2]].pc = "done"

-----------------------------------------------------------------------------
(* Properties of the combinators *)

Conds(op) == {c \in 1..Len(ev) : ev[c].ty = "condition" /\ ev[c].on = op}
Members(c) == {ev[c].arg[1].events[i] : i \in 1..Len(ev[c].arg[1].events)}
Fired(e) == ev[e].st # "pending"
MinTT(S) == CHOOSE t \in {ev[e].tt : e \in S} : \A e \in S : t <= ev[e].tt
MaxTT(S) == CHOOSE t \in {ev[e].tt : e \in S} : \A e \in S : t >= ev[e].tt

(* The any-of fires at the earliest fire time of its members, or at its   *)
(* construction when a member had fired before.                            *)
AnyOfFiresAtEarliest ==
    \A c \in Conds("any") :
        LET F == {e \in Members(c) : Fired(e)} IN
        /\ Fired(c) => F # {} /\ ev[c].tt = Max(ev[c].tc, MinTT(F))
        /\ (F # {} /\ MinTT(F) < now) => Fired(c)

C12_AllOfAtLatest ==
    /\ [](\A c \in Conds("all") :
            /\ Fired(c) => /\ \A e \in Members(c) : ev[e].st = "processed"
                           /\ ev[c].tt = Max(ev[c].tc, MaxTT(Members(c)))
            /\ ((\A e \in Members(c) : Fired(e)) /\ MaxTT(Members(c)) < now) => Fired(c)
            /\ ev[c].val # None => ev[c].val[1] = ev[c].arg[1].events)
    /\ [][\A c \in Conds("all") :
            (cur = c /\ HeadCb("resume") /\ run' # run) =>
              /\ now = ev[c].tt
              /\ run'.val = Some(ev[c].arg[1].events)]_vars

(* An unloading split among the workers has ended: the workers without    *)
(* boxes ended at the start, two or more workers ended together later,    *)
(* and the executor was resumed then with all six in the mapping.         *)
C12_Witness ==
    \E c \in Conds("all") : \E p \in DOMAIN proc :
        /\ proc[p].kind = "exec_descarga" /\ proc[p].pc # "aguarda_funcionarios"
        /\ ev[c].tc = ev[proc[p].ev].tc
        /\ ev[c].val # None /\ Len(ev[c].val[1]) = QtdFuncionariosCD
        /\ MinTT(Members(c)) = ev[c].tc
        /\ ev[c].tt = MaxTT(Members(c)) /\ ev[c].tt > ev[c].tc
        /\ Cardinality({e \in Members(c) : ev[e].tt = ev[c].tt}) >= 2

(* C13: a combinator built over members that have already been          *)
(* processed (one of them for an any-of, all of them for an all-of) is    *)
(* triggered by its construction, at that instant; and a combinator       *)
(* fires once: it is in the queue exactly while it is triggered, it is    *)
(* popped only in that state, and once processed its time and mapping     *)
(* never change, also when one of its members belongs to other            *)
(* combinators.                                                            *)
C13_FiresAtConstructionOnce ==
    /\ [][\A c \in (Len(ev) + 1)..Len(ev') :
            ev'[c].ty = "condition" =>
              LET events == ev'[c].arg[1].events
                  done == {i \in 1..Len(events) :
                               events[i] <= Len(ev) /\ ev'[events[i]].st = "processed"}
              IN  (IF ev'[c].on = "all" THEN done = 1..Len(events) ELSE done # {})
                    => ev'[c].st = "triggered" /\ ev'[c].tt = now' /\ now' = now]_vars
    /\ [](\A c \in Conds("any") \cup Conds("all") :
            Cardinality({x \in queue : x.e = c}) = IF ev[c].st = "triggered" THEN 1 ELSE 0)
    /\ [][\A c \in Conds("any") \cup Conds("all") :
            /\ (cur' = c /\ cur # c) => ev[c].st = "triggered"
            /\ ev[c].st = "processed" => ev'[c].st = "processed" /\ ev'[c].tt = ev[c].tt
            /\ ev[c].val # None => ev'[c].val = ev[c].val]_vars

(* The crew waited again on a start gate that had been signalled and      *)
(* processed while it was busy: the gate is a member of the earlier       *)
(* any-of too, and the new any-of fired at the instant of its             *)
(* construction with that gate in its mapping.                             *)
C13_Witness ==
    \E c1, c2 \in Conds("any") : \E e \in Members(c1) \cap Members(c2) :
        /\ c1 < c2
        /\ ev[c1].val # None /\ ev[c2].val # None
        /\ e < c2 /\ ev[e].tt <= ev[c2].tc
        /\ ev[c2].tt = ev[c2].tc
        /\ Contem(ev[c2].val[1], e)
        /\ proc[ProcEquipe].execs # <<>> /\ proc[ProcEquipe].pc = "executa"

-----------------------------------------------------------------------------
(* Protocol errors of the specification (section 7, taxonomy (a)): two    *)
(* processes share one event and one container and, each time they run,   *)
(* fire the event, put or get an amount that may be non-positive, or      *)
(* wait.  An exception leaves the body at the failing call and ends the   *)
(* run.                                                                    *)

MaxOps == 4            \* operations issued in one run
UntilProtocolo == 3    \* run(until)
CapProtocolo == 2
Quantias == {-1, 0, 1, 2}
AtrasosProtocolo == {0, 1}

InitProtocolo ==
    LET k0 == [now |-> 0, eid |-> 0, queue |-> {}, ev |-> <<>>, run |-> NoRun, err |-> "",
               res |-> <<>>,
               cont |-> [c \in {"c"} |-> NewContainer(TRUE, CapProtocolo, 1)],
               store |-> <<>>,
               obs |-> [rel |-> <<>>]]
        k1 == NewEvent(SpawnAll(k0, 2), "event", "gate", None)
    IN  /\ InitK(k1)
        /\ proc = [p \in 1..2 |-> [kind |-> "operador", pc |-> "start", ev |-> 2 * p - 1,
                                   qtd |-> 0]]
        /\ m = [gate |-> LastId(k1), ops |-> 0]

Operando(p) == err = "" /\ run.p = p /\ m.ops < MaxOps

(* gate.succeed(value=p); yield gate *)
Protocolo_Dispara ==
  \E p \in DOMAIN proc :
    /\ Operando(p)
    /\ SetK(Yield(Succeed(K, m.gate, Some(p)), p, m.gate))
    /\ proc' = [proc EXCEPT ![p].pc = "dispara"]
    /\ m' = [m EXCEPT !.ops = @ + 1]
    /\ UNCHANGED <<cur, cbs>>

(* yield container.put(a) *)
Protocolo_Put ==
  \E p \in DOMAIN proc : \E a \in Quantias :
    /\ Operando(p)
    /\ LET k1 == ContPut(K, "c", a) IN SetK(Yield(k1, p, LastId(k1)))
    /\ proc' = [proc EXCEPT ![p].pc = "put", ![p].qtd = a]
    /\ m' = [m EXCEPT !.ops = @ + 1]
    /\ UNCHANGED <<cur, cbs>>

(* yield container.get(a) *)
Protocolo_Get ==
  \E p \in DOMAIN proc : \E a \in Quantias :
    /\ Operando(p)
    /\ LET k1 == ContGet(K, "c", a) IN SetK(Yield(k1, p, LastId(k1)))
    /\ proc' = [proc EXCEPT ![p].pc = "get", ![p].qtd = a]
    /\ m' = [m EXCEPT !.ops = @ + 1]
    /\ UNCHANGED <<cur, cbs>>

(* yield env.timeout(d) *)
Protocolo_Espera ==
  \E p \in DOMAIN proc : \E d \in AtrasosProtocolo :
    /\ Operando(p)
    /\ LET k1 == Timeout(K, d) IN SetK(Yield(k1, p, LastId(k1)))
    /\ proc' = [proc EXCEPT ![p].pc = "espera"]
    /\ m' = [m EXCEPT !.ops = @ + 1]
    /\ UNCHANGED <<cur, cbs>>

StepProtocolo == Step(UntilProtocolo)
StopProtocolo == Stop(UntilProtocolo)

NextProtocolo ==
    \/ StepProtocolo
    \/ StopProtocolo
    \/ Resume
    \/ ContainerCallback
    \/ Protocolo_Dispara
    \/ Protocolo_Put
    \/ Protocolo_Get
    \/ Protocolo_Espera

SpecProtocolo == InitProtocolo /\ [][NextProtocolo]_vars

-----------------------------------------------------------------------------
(* Zero-delay scenario of the specification (section 8, Scenario 4): two  *)
(* processes created one after the other wait for the same start time     *)
(* and then yield a zero-delay timeout again and again.                    *)

MaxCadeia == 12        \* zero-delay timeouts yielded by each process
UntilCenario4 == 4     \* run(until)
InicioCenario4 == {0, 1, 2}

InitCenario4 ==
    LET k0 == [now |-> 0, eid |-> 0, queue |-> {}, ev |-> <<>>, run |-> NoRun, err |-> "",
               res |-> <<>>, cont |-> <<>>, store |-> <<>>,
               obs |-> [rel |-> <<>>]]
    IN  /\ InitK(SpawnAll(k0, 2))
        /\ proc = [p \in 1..2 |-> [kind |-> "cadeia", pc |-> "start", ev |-> 2 * p - 1,
                                   n |-> 0]]
        /\ \E t \in InicioCenario4 : m = [inicio |-> t, ordem |-> <<>>]

(* Both processes wait for the start time. *)
Cenario4_Inicia ==
  \E p \in DOMAIN proc :
    /\ Running(p, "start")
    /\ LET k1 == Timeout(K, m.inicio) IN SetK(Yield(k1, p, LastId(k1)))
    /\ proc' = [proc EXCEPT ![p].pc = "cadeia"]
    /\ UNCHANGED <<cur, cbs, m>>

(* A process is resumed and yields env.timeout(0) once more. *)
Cenario4_Cede ==
  \E p \in DOMAIN proc :
    /\ Running(p, "cadeia")
    /\ proc[p].n < MaxCadeia
    /\ LET k1 == Timeout(K, 0) IN SetK(Yield(k1, p, LastId(k1)))
    /\ proc' = [proc EXCEPT ![p].n = @ + 1]
    /\ m' = [m EXCEPT !.ordem = Append(@, p)]
    /\ UNCHANGED <<cur, cbs>>

(* The chain of a process ends. *)
Cenario4_Fim ==
  \E p \in DOMAIN proc :
    /\ Running(p, "cadeia")
    /\ proc[p].n = MaxCadeia
    /\ SetK(Finish(K, proc[p].ev, None))
    /\ proc' = [proc EXCEPT ![p].pc = "done"]
    /\ UNCHANGED <<cur, cbs, m>>

StepCenario4 == Step(UntilCenario4)
StopCenario4 == Stop(UntilCenario4)

NextCenario4 ==
    \/ StepCenario4
    \/ StopCenario4
    \/ Resume
    \/ Cenario4_Inicia
    \/ Cenario4_Cede
    \/ Cenario4_Fim

SpecCenario4 == InitCenario4 /\ [][NextCenario4]_vars

-----------------------------------------------------------------------------
(* The laundry run on the InteractiveEnvironment (__init__.py): before    *)
(* each step on_event polls the occupancy of every resource of the model  *)
(* and keeps the figure's maxima.                                          *)

(* The (current, total) pairs on_event collects: capacity - len(items)    *)
(* of a Store, level of a Container, count of a Resource.                  *)
Valores(k) ==
    [res |-> [r \in DOMAIN k.res |-> Len(k.res[r].users)],
     cont |-> [c \in DOMAIN k.cont |-> k.cont[c].level],
     store |-> [s \in DOMAIN k.store |-> k.store[s].cap - Len(k.store[s].items)]]

(* A hook that also frees the oldest slot of every resource it polls. *)
OnEvent_Libera(k) ==
    [k EXCEPT !.res = [r \in DOMAIN k.res |->
                         [k.res[r] EXCEPT !.users = IF @ = <<>> THEN @ ELSE Tail(@)]],
              !.obs.mon = [carregado |-> TRUE, maxs |-> Valores(k)]]

(* InteractiveEnvironment.on_event: the first call loads the figure, the  *)
(* later ones raise the maximum kept for each resource.  The maxima are   *)
(* kept as counts (the code keeps 10 * current / total, total fixed).     *)
OnEvent(k) ==
    IF ~k.obs.mon.carregado
    THEN [k EXCEPT !.obs.mon.carregado = TRUE]
    ELSE LET v == Valores(k)
             old == k.obs.mon.maxs
         IN  [k EXCEPT !.obs.mon.maxs =
                 [res |-> [r \in DOMAIN v.res |-> Max(old.res[r], v.res[r])],
                  cont |-> [c \in DOMAIN v.cont |-> Max(old.cont[c], v.cont[c])],
                  store |-> [x \in DOMAIN v.store |-> Max(old.store[x], v.store[x])]]]

(* BaseEnvironment.step: on_event on the head of the queue, then          *)
(* simpy.Environment.step.                                                 *)
StepInterativo(until) ==
    /\ Idle
    /\ queue # {}
    /\ LET k1 == OnEvent(K)
           x == MinEntry(k1.queue)
       IN  /\ x.t < until
           /\ now' = x.t
           /\ queue' = k1.queue \ {x}
           /\ cur' = x.e
           /\ cbs' = k1.ev[x.e].cbs
           /\ ev' = [k1.ev EXCEPT ![x.e].st = "processed", ![x.e].cbs = <<>>]
           /\ eid' = k1.eid /\ run' = k1.run /\ err' = k1.err
           /\ res' = k1.res /\ cont' = k1.cont /\ store' = k1.store /\ obs' = k1.obs
    /\ UNCHANGED <<proc, m>>

(* The step that pops the until event: on_event, then StopSimulation. *)
StopInterativo(until) ==
    /\ Idle
    /\ \A x \in queue : x.t >= until
    /\ LET k1 == OnEvent(K)
       IN  /\ now' = until
           /\ err' = "StopSimulation"
           /\ queue' = k1.queue /\ ev' = k1.ev /\ eid' = k1.eid /\ run' = k1.run
           /\ res' = k1.res /\ cont' = k1.cont /\ store' = k1.store /\ obs' = k1.obs
    /\ UNCHANGED <<cur, cbs, proc, m>>

InitLavanderiaInterativa ==
    LET R == {"maquinas", "cestos", "secadoras"}
        k0 == [now |-> 0, eid |-> 0, queue |-> {}, ev |-> <<>>, run |-> NoRun, err |-> "",
               res |-> [r \in R |-> CASE r = "maquinas" -> NewResource(CapMaquinas)
                                      [] r = "cestos" -> NewResource(CapCestos)
                                      [] OTHER -> NewResource(CapSecadoras)],
               cont |-> <<>>, store |-> <<>>,
               obs |-> [rel |-> [r \in R |-> -1],
                        mon |-> [carregado |-> FALSE,
                                 maxs |-> [res |-> [r \in R |-> -1],
                                           cont |-> <<>>, store |-> <<>>]]]]
    IN  /\ InitK(Spawn(k0, 1))
        /\ proc = <<[kind |-> "inicia", pc |-> "start", ev |-> 1]>>
        /\ m = [tempo_total_lavagem |-> 0, tempo_total_secagem |-> 0,
                tempo_total_chegada |-> 0, tempo_total_cesto |-> 0, num_eventos |-> 0,
                num_cestos_usados |-> 0, ultimo_tempo_chegada |-> 0]

StepLavanderiaInterativa == StepInterativo(UntilLavanderia)
StopLavanderiaInterativa == StopInterativo(UntilLavanderia)

NextLavanderiaInterativa ==
    \/ StepLavanderiaInterativa
    \/ StopLavanderiaInterativa
    \/ Resume
    \/ ResourceCallback
    \/ Inicia_Chegada
    \/ Lavagem_AguardaMaquina
    \/ Lavagem_Lava
    \/ Lavagem_AguardaCesto
    \/ Lavagem_Descarrega
    \/ Lavagem_Transporta
    \/ Lavagem_AguardaSecadora
    \/ Lavagem_Carrega
    \/ Lavagem_Seca
    \/ Lavagem_Termina

SpecLavanderiaInterativa == InitLavanderiaInterativa /\ [][NextLavanderiaInterativa]_vars

-----------------------------------------------------------------------------
(* The books of the depot (centro_distribuicao.py).  The volumes are      *)
(* Python floats (triangular(0.03, 0.12, 1)) and the level of the         *)
(* Container is a float that every put and get adds to or subtracts       *)
(* from, rounding to the nearest representable number.  The floats here   *)
(* carry Mantissa significant bits instead of 53, in units of the         *)
(* smallest volume; the crew puts the boxes of one truck, the picking     *)
(* team takes them, each in the order of its loop.                         *)

Mantissa == 3            \* significant bits of a float (53 in a Python float)
MaxCaixas == 3           \* boxes of the truck (the code fills up to tamanho_caminhao)
CapDeposito == 28        \* tamanho_deposito, a representable number

VolumesDeposito == {1, 2, 3, 5, 7}   \* triangular(0.03, 0.12, 1), representable

ProcDescarga == 1        \* _executa_funcionarios__descarga
ProcSeparacaoDeposito == 2   \* _processa_funcionarios__

(* The gap between neighbouring floats around x. *)
RECURSIVE Ulp(_)
Ulp(x) == IF x < 2 ^ Mantissa THEN 1 ELSE 2 * Ulp(x \div 2)

(* The float nearest to x, ties to the even significand. *)
Arredonda(x) ==
    LET u == Ulp(x)
        q == x \div u
        r == x % u
    IN  IF 2 * r < u THEN q * u
        ELSE IF 2 * r > u THEN (q + 1) * u
        ELSE IF q % 2 = 0 THEN q * u ELSE (q + 1) * u

(* inicia, and a truck whose boxes the crew is about to put in the depot. *)
InitDeposito ==
    /\ now = 0 /\ eid = 0 /\ queue = {} /\ ev = <<>> /\ cur = 0 /\ cbs = <<>>
    /\ run = NoRun /\ err = "" /\ res = <<>> /\ obs = <<>> /\ m = <<>>
    /\ cont = [c \in {"deposito"} |-> NewContainer(TRUE, CapDeposito, 0)]
    /\ store = [x \in {"deposito"} |-> NewStore(FALSE, 0)]
    /\ \E n \in 1..MaxCaixas : \E volumes \in [1..n -> VolumesDeposito] :
         proc = <<[kind |-> "exec_descarga", pc |-> "container_put", restantes |-> volumes],
                  [kind |-> "separacao", pc |-> "store_get", volume |-> 0, volumes |-> <<>>]>>

(* yield self._container_deposito.put(volume): Container._do_put adds the *)
(* amount to the level when it fits, and a waiting get of the picking     *)
(* team is served if the level now covers it.                              *)
Deposito_ContainerPut ==
    /\ proc[ProcDescarga].pc = "container_put"
    /\ proc[ProcDescarga].restantes # <<>>
    /\ LET volume == Head(proc[ProcDescarga].restantes)
           C == cont["deposito"]
           level == Arredonda(C.level + volume)
           sep == proc[ProcSeparacaoDeposito]
           serve == sep.pc = "aguarda_get" /\ level >= sep.volume
       IN  /\ Arredonda(C.cap - C.level) >= volume
           /\ cont' = [cont EXCEPT !["deposito"].level =
                          IF serve THEN Arredonda(level - sep.volume) ELSE level]
           /\ proc' = [proc EXCEPT ![ProcDescarga].pc = "store_put",
                                   ![ProcSeparacaoDeposito].pc =
                                       IF serve THEN "store_get" ELSE @,
                                   ![ProcSeparacaoDeposito].volumes =
                                       IF serve THEN Append(@, sep.volume) ELSE @]
    /\ UNCHANGED <<now, eid, queue, ev, cur, cbs, run, err, res, store, m, obs>>

(* yield self._store_deposito.put(volume), and on to the next box. *)
Deposito_StorePut ==
    /\ proc[ProcDescarga].pc = "store_put"
    /\ store' = [store EXCEPT !["deposito"].items =
                    Append(@, Head(proc[ProcDescarga].restantes))]
    /\ proc' = [proc EXCEPT ![ProcDescarga].restantes = Tail(@),
                            ![ProcDescarga].pc =
                                IF Tail(proc[ProcDescarga].restantes) = <<>>
                                THEN "done" ELSE "container_put"]
    /\ UNCHANGED <<now, eid, queue, ev, cur, cbs, run, err, res, cont, m, obs>>

(* volume = yield self._store_deposito.get() *)
Deposito_StoreGet ==
    /\ proc[ProcSeparacaoDeposito].pc = "store_get"
    /\ store["deposito"].items # <<>>
    /\ store' = [store EXCEPT !["deposito"].items = Tail(@)]
    /\ proc' = [proc EXCEPT ![ProcSeparacaoDeposito].pc = "container_get",
                            ![ProcSeparacaoDeposito].volume = Head(store["deposito"].items)]
    /\ UNCHANGED <<now, eid, queue, ev, cur, cbs, run, err, res, cont, m, obs>>

(* yield self._container_deposito.get(volume): Container._do_get serves   *)
(* the get if level >= amount, and leaves it waiting otherwise.            *)
Deposito_ContainerGet ==
    /\ proc[ProcSeparacaoDeposito].pc = "container_get"
    /\ LET volume == proc[ProcSeparacaoDeposito].volume IN
       IF cont["deposito"].level >= volume
       THEN /\ cont' = [cont EXCEPT !["deposito"].level = Arredonda(@ - volume)]
            /\ proc' = [proc EXCEPT ![ProcSeparacaoDeposito].pc = "store_get",
                                    ![ProcSeparacaoDeposito].volumes = Append(@, volume)]
       ELSE /\ cont' = cont
            /\ proc' = [proc EXCEPT ![ProcSeparacaoDeposito].pc = "aguarda_get"]
    /\ UNCHANGED <<now, eid, queue, ev, cur, cbs, run, err, res, store, m, obs>>

NextDeposito ==
    \/ Deposito_ContainerPut
    \/ Deposito_StorePut
    \/ Deposito_StoreGet
    \/ Deposito_ContainerGet

SpecDeposito == InitDeposito /\ [][NextDeposito]_vars

-----------------------------------------------------------------------------
(* Properties of the renewed gate *)

EventosUsinagem == {e \in 1..Len(ev) : ev[e].ty = "event" /\ ev[e].on = "usinagem"}

Aguardando(cbseq) == {cbseq[i].a : i \in {j \in 1..Len(cbseq) : cbseq[j].k = "resume"}}

(* C14: the step that fires the gate of the joiners and replaces it       *)
(* leaves the waiters of the old event on it and the fresh event pending  *)
(* with no waiter; the variable always holds a pending event, so a        *)
(* joiner that yields it is suspended on an event not yet fired; a        *)
(* waiter leaves an event only when that event, triggered, is popped,     *)
(* and all its waiters are then resumed; a joiner waiting on the gate is  *)
(* resumed only by a gate event.                                           *)
C14_GateRenewal ==
    /\ [](ev[m.evento_usinagem].st = "pending")
    /\ [](\A e \in EventosUsinagem : ev[e].st = "pending" =>
            \A p \in Aguardando(ev[e].cbs) :
                run.p # p /\ (cur = e \/ p \notin Aguardando(cbs)))
    /\ [][m'.evento_usinagem # m.evento_usinagem =>
            LET g == m.evento_usinagem IN
              /\ ev'[g].st = "triggered" /\ ev'[g].tt = now
              /\ ev'[g].cbs = ev[g].cbs
              /\ m'.evento_usinagem > Len(ev)
              /\ ev'[m'.evento_usinagem].cbs = <<>>]_vars
    /\ [][\A p \in DOMAIN proc :
            (IsUniao(p) /\ proc[p].pc = "start" /\ proc'[p].pc = "usinagem") =>
               /\ ev[m.evento_usinagem].st = "pending"
               /\ p \in Aguardando(ev'[m.evento_usinagem].cbs)
               /\ run' = NoRun]_vars
    /\ [][\A e \in EventosUsinagem : \A p \in Aguardando(ev[e].cbs) :
            \/ p \in Aguardando(ev'[e].cbs)
            \/ /\ ev[e].st = "triggered" /\ cur' = e /\ ev'[e].st = "processed"
               /\ Aguardando(cbs') = Aguardando(ev[e].cbs)]_vars
    /\ [][\A p \in DOMAIN proc :
            (IsUniao(p) /\ proc[p].pc = "usinagem" /\ run'.p = p /\ run.p # p) =>
               cur \in EventosUsinagem /\ ev[cur].st = "processed"]_vars

(* A joiner released by an earlier firing has finished a joint, and a    *)
(* joiner waits on the event that replaced an event fired and processed   *)
(* before the present instant.                                             *)
C14_Witness ==
    \E e1, e2 \in EventosUsinagem :
        /\ e1 < e2 /\ ev[e1].st = "processed"
        /\ m.evento_usinagem = e2 /\ ev[e2].tc = ev[e1].tt /\ ev[e1].tt < now
        /\ Aguardando(ev[e2].cbs) # {}
        /\ m.pecas_unidas > 0

-----------------------------------------------------------------------------
(* Properties of the protocol errors *)

(* The step in which process p issues the operation op. *)
Emite(p, op) == run.p = p /\ m'.ops = m.ops + 1 /\ proc'[p].pc = op

(* C15: succeed() on an event that is no longer pending raises            *)
(* RuntimeError in the calling step, and the events (state, value, time,  *)
(* callbacks of each) and the queue are as before the call.                *)
C15_FiredEventRejectsSucceed ==
    [][\A p \in DOMAIN proc :
         (Emite(p, "dispara") /\ ev[m.gate].st # "pending") =>
            /\ err' = "RuntimeError"
            /\ ev' = ev /\ queue' = queue /\ eid' = eid
            /\ run' = NoRun]_vars

(* Process 2 fired the event that process 1 had fired: the call failed    *)
(* and the event keeps the value of process 1.                             *)
C15_Witness ==
    /\ err = "RuntimeError"
    /\ proc[2].pc = "dispara"
    /\ ev[m.gate].st = "processed" /\ ev[m.gate].val = Some(1)

(* C16: put(amount) and get(amount) with amount <= 0 raise ValueError in  *)
(* the calling step: no event is created, nothing is scheduled, and the   *)
(* container (level and both queues) is as before the call.                *)
C16_NonPositiveAmountRejected ==
    [][\A p \in DOMAIN proc :
         ((Emite(p, "put") \/ Emite(p, "get")) /\ proc'[p].qtd <= 0) =>
            /\ err' = "ValueError"
            /\ ev' = ev /\ queue' = queue /\ eid' = eid
            /\ cont' = cont
            /\ run' = NoRun]_vars

(* A put(0) was rejected while a get was waiting in the queue of the       *)
(* container.                                                              *)
C16_Witness ==
    /\ err = "ValueError"
    /\ \E p \in DOMAIN proc : proc[p].pc = "put" /\ proc[p].qtd = 0
    /\ cont["c"].getq # <<>>

-----------------------------------------------------------------------------
(* Properties of the scheduler *)

(* C17: the entry popped by a step precedes every entry left in the       *)
(* queue: it is not later, and among those of its time it has the lowest  *)
(* (priority, sequence).  Sequence numbers follow the order of            *)
(* scheduling: a new entry takes a number above every number in the       *)
(* queue.  An entry scheduled for the current time sorts after the        *)
(* entries of that time and priority already queued, and the clock never  *)
(* moves past a queued entry, so it is popped before time advances.        *)
C17_PrioritySequenceOrder ==
    /\ [][\A x \in queue \ queue' : \A y \in queue \ {x} :
            \/ x.t < y.t
            \/ x.t = y.t /\ x.prio < y.prio
            \/ x.t = y.t /\ x.prio = y.prio /\ x.seq < y.seq]_vars
    /\ [][\A y \in queue' \ queue :
            /\ eid <= y.seq /\ y.seq < eid'
            /\ y.t >= now
            /\ \A x \in queue : x.seq < y.seq
            /\ \A z \in (queue' \ queue) \ {y} : z.seq # y.seq]_vars
    /\ [](\A x \in queue : x.t >= now /\ x.seq < eid)
    /\ [][now' # now =>
            /\ (\E x \in queue : x.t = now' /\ x \notin queue') \/ err' = "StopSimulation"
            /\ \A y \in queue : y.t >= now']_vars

(* The Initialize entry of a process started at the present time by a     *)
(* callback was popped while a timeout created before it, due at the      *)
(* same time with normal priority, was still queued.                       *)
C17_Witness ==
    /\ cur # 0 /\ ev[cur].ty = "initialize" /\ ev[cur].tc = now /\ now > 0
    /\ \E y \in queue :
         /\ y.t = now /\ y.prio = NORMAL
         /\ ev[y.e].ty = "timeout" /\ y.e < cur /\ ev[y.e].tc < now

(* C18: the two processes of the zero-delay chain are resumed in turn,   *)
(* the first-created one first in every cycle: the record of resumptions  *)
(* reads 1, 2, 1, 2, ..., all of them at the start time, and the second   *)
(* process is never more than one resumption behind the first.             *)
C18_ZeroDelayAlternation ==
    /\ [](\A i \in 1..Len(m.ordem) : m.ordem[i] = IF i % 2 = 1 THEN 1 ELSE 2)
    /\ [](proc[2].n <= proc[1].n /\ proc[1].n <= proc[2].n + 1)
    /\ []((m.ordem # <<>> /\ err = "") => now = m.inicio)

(* Both chains ran to their full length at a start time after 0. *)
C18_Witness ==
    /\ m.inicio > 0 /\ now = m.inicio
    /\ proc[1].n = MaxCadeia /\ proc[2].n = MaxCadeia
    /\ Len(m.ordem) = 2 * MaxCadeia

(* C19: run(until) of the laundry pops no entry due at or after until:   *)
(* every processed event was due before until, the clock never exceeds    *)
(* until, and when the run has returned every entry left is due at or     *)
(* after until and its event is not processed.                             *)
C19_UntilExclusive ==
    /\ [][\A x \in queue \ queue' : x.t < UntilLavanderia /\ now' = x.t]_vars
    /\ [](\A e \in 1..Len(ev) : ev[e].st = "processed" =>
              ev[e].tt < UntilLavanderia /\ ev[e].tt <= now)
    /\ [](now <= UntilLavanderia)
    /\ [](err = "StopSimulation" =>
            /\ now = UntilLavanderia
            /\ \A x \in queue : x.t >= UntilLavanderia /\ ev[x.e].st = "triggered"
            /\ \A e \in 1..Len(ev) :
                 (ev[e].st = "triggered" /\ ev[e].tt >= UntilLavanderia)
                    => \E x \in queue : x.e = e)

(* The run returned with an entry due exactly at until, and another due   *)
(* later, left in the queue.                                               *)
C19_Witness ==
    /\ err = "StopSimulation"
    /\ \E x \in queue : x.t = UntilLavanderia
    /\ \E x \in queue : x.t > UntilLavanderia

(* C20: no step of the assembly cell's run moves the clock backwards:    *)
(* the time after a step is at least the time before it, whether the      *)
(* step pops an entry, runs a callback, runs a process body or ends the   *)
(* run.                                                                    *)
C20_ClockNeverDecreases == [][now' >= now]_vars

(* The clock has advanced, and two events were then processed at the      *)
(* present time, one step after the other.                                 *)
C20_Witness ==
    \E e1, e2, e3 \in 1..Len(ev) :
        /\ ev[e1].st = "processed" /\ ev[e2].st = "processed" /\ ev[e3].st = "processed"
        /\ 0 < ev[e1].tt /\ ev[e1].tt < ev[e2].tt
        /\ e2 < e3 /\ ev[e2].tt = now /\ ev[e3].tt = now

-----------------------------------------------------------------------------
(* Properties of the bar's arrivals *)

(* C21: the step of the arrival process that starts a customer ends with  *)
(* the arrival process suspended on its own timeout and the customer not  *)
(* yet run: its Initialize entry is queued, urgent, for the present time. *)
(* The customer's first statement runs at the time of its creation,       *)
(* while the arrival process is still waiting on that timeout.             *)
C21_SpawnDoesNotPreempt ==
    /\ [][Len(proc') > Len(proc) =>
            LET c == Len(proc')
                pe == proc'[c].ev
            IN  /\ Len(proc') = Len(proc) + 1
                /\ run.p = ProcClientes /\ run' = NoRun
                /\ proc'[c].pc = "start"
                /\ ev'[pe].ty = "process" /\ ev'[pe].st = "pending" /\ ev'[pe].tc = now
                /\ \E x \in queue' : x.e = pe + 1 /\ x.t = now /\ x.prio = URGENT
                /\ ev'[pe + 2].ty = "timeout"
                /\ Cb("resume", ProcClientes) \in {ev'[pe + 2].cbs[i] : i \in 1..Len(ev'[pe + 2].cbs)}
                /\ now' = now]_vars
    /\ [][\A p \in DOMAIN proc :
            (proc[p].kind = "cliente" /\ proc[p].pc = "start" /\ proc'[p].pc # "start") =>
               /\ run.p = p
               /\ now = ev[proc[p].ev].tc
               /\ ev[proc[p].ev + 2].st = "triggered"
               /\ proc[ProcClientes].pc = "espera"]_vars

(* A customer created after time 0 together with a zero-delay timeout of  *)
(* the arrival process has run its first statement at the time of its     *)
(* creation.                                                               *)
C21_Witness ==
    \E p \in DOMAIN proc :
        /\ proc[p].kind = "cliente" /\ proc[p].pc = "cadeira"
        /\ ev[proc[p].ev].tc > 0 /\ proc[p].t0 = ev[proc[p].ev].tc /\ now = proc[p].t0
        /\ ev[proc[p].ev + 2].ty = "timeout" /\ ev[proc[p].ev + 2].tt = now
        /\ ev[proc[p].ev + 2].st = "triggered"

(* C22: a run of the bar is a function of the values drawn.  The draws   *)
(* are made by process bodies only; a state in which the run loop is      *)
(* about to pop an entry or to call a callback has one successor only:    *)
(* the entry popped, the clock, the process resumed and the value it is   *)
(* sent are determined by the state.  The entries of the queue never      *)
(* tie: no two have the same (time, priority, sequence).  A process body  *)
(* changes no other process's position.                                    *)
C22_Deterministic ==
    /\ [][run = NoRun => \A v \in {vars'} : ~ENABLED (NextBar /\ vars' # v)]_vars
    /\ [](\A x, y \in queue : x # y => Before(x, y) \/ Before(y, x))
    /\ [](\A x, y \in queue : x # y => x.seq # y.seq /\ x.e # y.e)
    /\ [][run # NoRun =>
            \A p \in DOMAIN proc : p # run.p => proc'[p] = proc[p]]_vars

(* The next step chooses among several entries due at the present time    *)
(* with the same priority, after a drink was prepared.                     *)
C22_Witness ==
    /\ Idle
    /\ \E x, y \in queue : x # y /\ x.t = now /\ y.t = now /\ x.prio = y.prio
    /\ Len(m.tempos_preparo) > 0

-----------------------------------------------------------------------------
(* Properties of the monitored run *)

-----------------------------------------------------------------------------
(* Properties of the distribution centre *)

EventosDe(on) == {e \in DOMAIN ev : ev[e].ty = "event" /\ ev[e].on = on}

(* C24: every finish-load gate that has fired fired at a time of day no   *)
(* later than the closing hour.                                            *)
C24_LoadEndsByClosing ==
    \A e \in EventosDe("finalizar_carga") :
        ev[e].st # "pending" => ev[e].tt % Dia <= HoraFinal

(* C25: trucks arrive independently of the unloading: while a truck holds *)
(* a place of the yard, parked or being unloaded, the arrival of the next *)
(* truck is under way, so that it can take a second place.                 *)
C25_ArrivalsIndependentOfUnloading ==
    res["estacionamento"].users # <<>> =>
        \E p \in DOMAIN proc : proc[p].kind = "caminhao" /\ proc[p].pc = "viaja"

(* C26: the wait the truck starts when parked is 8 - h before the opening *)
(* hour, 24 - h + 8 after the closing hour and 0 otherwise, h being the   *)
(* time of day; the wait ends, and the truck is released, at a time of    *)
(* day within the operating window, and every start-unload gate fired     *)
(* fired within the window.                                                *)
C26_TruckWaitsForOpening ==
    /\ [][proc[ProcCaminhao].pc = "estaciona" /\ proc'[ProcCaminhao].pc = "abertura" =>
            LET h == now % Dia
                espera == IF h < HoraInicio THEN HoraInicio - h
                          ELSE IF h > HoraFinal THEN Dia - h + HoraInicio
                          ELSE 0
            IN  /\ \E x \in queue' \ queue :
                      /\ x.t = now + espera
                      /\ ev'[x.e].ty = "timeout"
                      /\ \E i \in 1..Len(ev'[x.e].cbs) :
                            SameCb(ev'[x.e].cbs[i], Cb("resume", ProcCaminhao))
                /\ (now + espera) % Dia >= HoraInicio
                /\ (now + espera) % Dia <= HoraFinal]_vars
    /\ [][proc[ProcCaminhao].pc = "abertura" /\ proc'[ProcCaminhao].pc = "libera" =>
            now % Dia >= HoraInicio /\ now % Dia <= HoraFinal]_vars
    /\ [](\A e \in EventosDe("iniciar_descarga") :
            ev[e].st # "pending" =>
                ev[e].tt % Dia >= HoraInicio /\ ev[e].tt % Dia <= HoraFinal)

(* One truck waited through the night for the opening of the second day   *)
(* and has signalled the start of its unloading at 08:00, after another   *)
(* that arrived before the opening.                                        *)
C26_Witness ==
    /\ \E i \in 1..Len(m.tempos_espera_abertura) :
          m.tempos_espera_abertura[i] > 0 /\ m.tempos_espera_abertura[i] < HoraInicio
    /\ \E i \in 1..Len(m.tempos_espera_abertura) : m.tempos_espera_abertura[i] > HoraInicio
    /\ \E e \in EventosDe("iniciar_descarga") :
          ev[e].st # "pending" /\ ev[e].tt > Dia /\ ev[e].tt % Dia = HoraInicio

(* The events the processes of the centre fire with succeed(). *)
Portoes ==
    EventosDe("iniciar_carga") \cup EventosDe("iniciar_descarga")
        \cup EventosDe("finalizar_carga") \cup EventosDe("finalizar_descarga")
        \cup EventosDe("conclusao")

(* C29: every succeed() of the truck, the vans and the crew is called on  *)
(* an event that is still pending: at each of the five call sites the     *)
(* event about to be fired is pending, no RuntimeError is raised, and a   *)
(* gate that has fired keeps the time and the value of its one firing.    *)
C29_NoGateFiredTwice ==
    /\ [](err # "RuntimeError")
    /\ [](\A p \in DOMAIN proc :
            /\ IsVan(p) /\ Running(p, "aguarda_carregamento") =>
                  ev[m.evento_iniciar_carga].st = "pending"
            /\ IsVan(p) /\ Running(p, "carrega") =>
                  ev[proc[p].carregamento[1].evento_conclusao].st = "pending"
            /\ p = ProcCaminhao /\ Running(p, "ocupa") =>
                  ev[m.evento_iniciar_descarga].st = "pending"
            /\ proc[p].kind = "exec_carga" /\ Running(p, "aguarda_funcionarios") =>
                  ev[m.evento_finalizar_carga].st = "pending"
            /\ /\ proc[p].kind = "exec_descarga"
               /\ Running(p, "aguarda_funcionarios") \/ Running(p, "store_put")
               /\ proc[p].restantes = <<>>
               => ev[m.evento_finalizar_descarga].st = "pending")
    /\ [][\A e \in Portoes :
            ev[e].st # "pending" => ev'[e].tt = ev[e].tt /\ ev'[e].val = ev[e].val]_vars

(* Each of the five kinds of event has fired, the loading gates twice:    *)
(* the second van signalled the gate that replaced the first.             *)
C29_Witness ==
    /\ err = ""
    /\ \E e, f \in EventosDe("iniciar_carga") :
          e # f /\ ev[e].st = "processed" /\ ev[f].st = "processed"
    /\ \E e, f \in EventosDe("finalizar_carga") :
          e # f /\ ev[e].st = "processed" /\ ev[f].st = "processed"
    /\ \E e \in EventosDe("iniciar_descarga") : ev[e].st = "processed"
    /\ \E e \in EventosDe("finalizar_descarga") : ev[e].st = "processed"
    /\ \E e \in EventosDe("conclusao") : ev[e].st = "processed"

(* C30: the level of the depot Container is at least the sum of the       *)
(* volumes of the boxes in the depot Store, and the get(volume) the       *)
(* picking team issues after taking a box from the Store is served at     *)
(* once: it is never left waiting.                                         *)
C30_LevelCoversStore ==
    /\ cont["deposito"].level >= Soma(store["deposito"].items)
    /\ proc[ProcSeparacaoDeposito].pc # "aguarda_get"

-----------------------------------------------------------------------------
(* Properties of the reused cup *)

(* C27: when the employee prepares an order for which the customer hands  *)
(* back a cup, the next thing the preparation does is to request the sink *)
(* to wash it; it does not go on to the freezer with the cup unwashed.    *)
C27_ReusedCupIsWashed ==
    [][/\ proc[ProcPreparo].pc = "funcionario"
       /\ proc'[ProcPreparo].pc # "funcionario"
       /\ proc[ProcPreparo].pedido[1].copo # None
       => /\ proc'[ProcPreparo].pc = "lavagem"
          /\ ev'[Len(ev')].ty = "request" /\ ev'[Len(ev')].on = "lavagem"]_vars

-----------------------------------------------------------------------------
(* Properties of the joiners *)

(* C28: whenever a joiner starts a joining (_une_pecas), the machine is   *)
(* held by a fixing worker, who is in its machining.                       *)
C28_JoiningOnlyDuringMachining ==
    [][\A p \in DOMAIN proc :
          IsUniao(p) /\ proc[p].pc = "parafusos" /\ proc'[p].pc = "start" =>
              \E q \in DOMAIN proc :
                  /\ IsFixacao(q) /\ proc[q].pc = "usinagem"
                  /\ \E i \in 1..Len(res["maquina"].users) :
                        res["maquina"].users[i] = proc[q].req]_vars

(* A joiner released by the start of a machining has begun its joining    *)
(* in the same instant, while the fixing worker that fired the gate holds *)
(* the machine.                                                            *)
C28_Witness ==
    /\ now > 0
    /\ \E c \in DOMAIN proc :
          /\ proc[c].kind = "une"
          /\ ev[proc[c].ev].tc = now
          /\ \E e \in EventosDe("usinagem") : ev[e].tt = now
    /\ \E q \in DOMAIN proc :
          IsFixacao(q) /\ proc[q].pc = "usinagem" /\ res["maquina"].users = <<proc[q].req>>

-----------------------------------------------------------------------------
(* Properties of the boxes of the distribution centre *)

(* C31: no box taken from the depot is discarded: when the picking team   *)
(* has taken a box, the boxes it has collected, that one included, stay   *)
(* in the batch being collected or go into a load handed to the vans.     *)
C31_NoBoxDiscarded ==
    [][Running(ProcSeparacao, "retira") /\ proc'[ProcSeparacao].pc # "retira" =>
          LET volumes == Append(proc[ProcSeparacao].volumes, proc[ProcSeparacao].volume)
          IN  \/ proc'[ProcSeparacao].volumes = volumes
              \/ \E i \in 1..Len(store'["eventos_carregamento"].items) :
                    store'["eventos_carregamento"].items[i].volumes = volumes]_vars

(* The crew waits for room in the depot to put a box of the truck, the    *)
(* picking team waits for the conclusion of the load it handed over, and  *)
(* the van that took that load waits for the crew to load it.              *)
EsperaCircular ==
    /\ cont["deposito"].putq # <<>>
    /\ proc[ProcCaminhao].pc = "descarrega"
    /\ proc[ProcEquipe].pc = "executa"
    /\ \A p \in DOMAIN proc : proc[p].kind = "exec_carga" => proc[p].pc = "done"
    /\ proc[ProcSeparacao].pc = "aguarda_conclusao"
    /\ \E p \in DOMAIN proc :
          /\ IsVan(p)
          /\ proc[p].pc = "carrega"
          /\ proc[p].carregamento = proc[ProcSeparacao].carregamento

(* C32: with a depot at least as large as a truck, the crew, the picking  *)
(* team and the vans never reach a state in which each waits for another, *)
(* so that a truck under unloading always gets its finish-unload gate.    *)
C32_NoCircularWait == ~EsperaCircular

-----------------------------------------------------------------------------
(* Properties of the cups and the employees of the bar *)

Clientes == {p \in DOMAIN proc : proc[p].kind = "cliente"}

(* The preparation holds a cup from the moment it receives it (from the   *)
(* store or from the order) until it hands it over with the drink.        *)
PreparoComCopo ==
    proc[ProcPreparo].pc \in {"lavagem", "lavando", "freezer_q", "freezer", "devolve", "congela"}

(* The get of a cup the preparation is waiting on: the last one issued. *)
UltimoGet(s) ==
    CHOOSE e \in 1..Len(ev) :
        /\ ev[e].ty = "store_get" /\ ev[e].on = s
        /\ \A f \in 1..Len(ev) : (ev[f].ty = "store_get" /\ ev[f].on = s) => f <= e

CopoDoPreparo ==
    IF PreparoComCopo THEN proc[ProcPreparo].copo
    ELSE IF proc[ProcPreparo].pc = "copo" THEN ev[UltimoGet("copos")].val
    ELSE None

(* The cup a customer holds: the one of the last drink, unless the        *)
(* preparation has taken it for the next drink or it was put back.         *)
CopoDoCliente(p) ==
    LET c == proc[p] IN
    IF c.pc \in {"coleta_put", "coleta", "preparo_put", "consome"} THEN c.copo
    ELSE IF c.pc = "preparo"
    THEN IF ev[c.conclusao].st # "pending" THEN ev[c.conclusao].val
         ELSE IF /\ PreparoComCopo
                 /\ proc[ProcPreparo].pedido # None
                 /\ proc[ProcPreparo].pedido[1].evento_conclusao = c.conclusao
         THEN None
         ELSE c.copo
    ELSE None

(* Number of places in which the cup i is. *)
LugaresDoCopo(i) ==
    Cardinality({j \in 1..Len(store["copos"].items) : store["copos"].items[j].id = i})
    + (IF CopoDoPreparo # None /\ CopoDoPreparo[1].id = i THEN 1 ELSE 0)
    + Cardinality({p \in Clientes : CopoDoCliente(p) # None /\ CopoDoCliente(p)[1].id = i})

(* C33: every cup is in exactly one place, the store, the hands of a      *)
(* customer or the preparation, so the three counts add up to qtd_copos;  *)
(* and the put with which a leaving customer returns the cup never waits. *)
C33_CupConservation ==
    /\ \A i \in 1..QtdCopos : LugaresDoCopo(i) = 1
    /\ store["copos"].putq = <<>>
    /\ \A e \in 1..Len(ev) :
          (ev[e].ty = "store_put" /\ ev[e].on = "copos") => ev[e].st # "pending"

(* A customer has left and put the cup back, the preparation holds one    *)
(* cup and a seated customer the other, and the store is empty.            *)
C33_Witness ==
    /\ \E p \in Clientes : proc[p].pc = "done"
    /\ CopoDoPreparo # None
    /\ \E p \in Clientes : CopoDoCliente(p) # None
    /\ store["copos"].items = <<>>

Retoma(callbacks, p) ==
    \E i \in 1..Len(callbacks) : callbacks[i].k = "resume" /\ callbacks[i].a = p

(* The get of an employee on which the process p is waiting or from which *)
(* it is being resumed.                                                    *)
GetDoFuncionario(p) ==
    CHOOSE e \in 1..Len(ev) :
        /\ ev[e].ty = "store_get" /\ ev[e].on = "funcionarios"
        /\ \/ Retoma(ev[e].cbs, p)
           \/ cur = e /\ (Retoma(cbs, p) \/ run.p = p)

(* The employee a process holds: from the get that hands it over until    *)
(* the put that returns it.                                                *)
FuncionarioDe(p) ==
    IF \/ p = ProcColeta /\ proc[p].pc = "coletando"
       \/ p = ProcPreparo /\ proc[p].pc \in {"copo", "lavagem", "lavando", "freezer_q", "freezer"}
    THEN Some(proc[p].funcionario)
    ELSE IF proc[p].pc = "funcionario" THEN ev[GetDoFuncionario(p)].val
    ELSE None

(* Number of places in which the employee i is. *)
LugaresDoFuncionario(i) ==
    Cardinality({j \in 1..Len(store["funcionarios"].items) : store["funcionarios"].items[j] = i})
    + Cardinality({p \in {ProcColeta, ProcPreparo} : FuncionarioDe(p) = Some(i)})

(* C34: every employee is in exactly one place, the store, the collection *)
(* or the preparation, so the counts add up to qtd_funcionarios with at   *)
(* most one employee held by each process; and the put that returns an    *)
(* employee never waits.                                                   *)
C34_EmployeeConservation ==
    /\ \A i \in 1..QtdFuncionarios : LugaresDoFuncionario(i) = 1
    /\ store["funcionarios"].putq = <<>>
    /\ \A e \in 1..Len(ev) :
          (ev[e].ty = "store_put" /\ ev[e].on = "funcionarios") => ev[e].st # "pending"

(* The collection has held and returned an employee, and now waits for    *)
(* one while the preparation holds it.                                     *)
C34_Witness ==
    /\ FuncionarioDe(ProcPreparo) # None
    /\ proc[ProcColeta].pc = "funcionario"
    /\ FuncionarioDe(ProcColeta) = None
    /\ Cardinality({e \in 1..Len(ev) : ev[e].ty = "store_put" /\ ev[e].on = "funcionarios"})
          > QtdFuncionarios

(* The preparation, with an employee in hand, waits for a cup while the   *)
(* store is empty, and no customer is drinking or leaving: every cup is   *)
(* with a seated customer who waits for a later order to be collected or  *)
(* prepared.                                                               *)
Impasse ==
    /\ proc[ProcPreparo].pc = "copo"
    /\ store["copos"].getq # <<>>
    /\ store["copos"].items = <<>>
    /\ \A p \in Clientes :
          /\ proc[p].pc \notin {"consome", "devolve"}
          /\ proc[p].pc = "preparo" => ev[proc[p].conclusao].st = "pending"
    /\ \E p \in Clientes : proc[p].pc \in {"coleta", "preparo"} /\ proc[p].copo # None

(* C35: customers holding cups and the preparation waiting for a cup or   *)
(* an employee never block one another, so that every order placed is     *)
(* collected, prepared and delivered.                                      *)
C35_NoDeadlock == ~Impasse

-----------------------------------------------------------------------------
(* Properties of the fixed pieces of ModeloMontagem1 *)

(* Joining operations started: the _une_pecas processes created. *)
UnioesIniciadas == Cardinality({p \in DOMAIN proc : proc[p].kind = "une"})

(* Machining operations completed, each followed at once by the put of    *)
(* the pair into the container of fixed pieces.                            *)
ParesDepositados ==
    Cardinality({e \in 1..Len(ev) : ev[e].ty = "cont_put" /\ ev[e].on = "pecas_fixadas"})

(* Pairs handed to a joiner: the gets on the container of fixed pieces    *)
(* that were granted.                                                      *)
ParesRetirados ==
    Cardinality({e \in 1..Len(ev) : /\ ev[e].ty = "cont_get" /\ ev[e].on = "pecas_fixadas"
                                    /\ ev[e].st # "pending"})

(* C36, as stated: the joins started never exceed the machinings          *)
(* completed, and twice the joins started plus the level of the container *)
(* of fixed pieces equals twice the pairs put after machining.             *)
C36_JoinsAccountForFixedPieces ==
    /\ UnioesIniciadas <= ParesDepositados
    /\ 2 * UnioesIniciadas + cont["pecas_fixadas"].level = 2 * ParesDepositados

(* C36, amended: the joins started never exceed the machinings completed, *)
(* and twice the pairs taken from the container of fixed pieces (those    *)
(* whose joining has started and those whose joiner has not started it    *)
(* yet) plus the level equals twice the pairs put after machining.         *)
C36_TakenPairsAccountForFixedPieces ==
    /\ UnioesIniciadas <= ParesDepositados
    /\ UnioesIniciadas <= ParesRetirados
    /\ ParesRetirados - UnioesIniciadas <= NFunc
    /\ 2 * ParesRetirados + cont["pecas_fixadas"].level = 2 * ParesDepositados

(* Two pairs were machined and put: the joining of one has started, the   *)
(* other was taken by a joiner that has not started joining it.            *)
C36_Witness ==
    /\ ParesDepositados >= 2
    /\ UnioesIniciadas >= 1
    /\ ParesRetirados > UnioesIniciadas
    /\ \E p \in DOMAIN proc : proc[p].kind = "une" /\ proc[p].pc = "timeout"

-----------------------------------------------------------------------------
(* Properties of the supply of the assembly cell *)

PutsDoAbastecimento ==
    {e \in 1..Len(ev) : ev[e].ty = "cont_put" /\ ev[e].on \in {"pecas", "parafusos"}}

(* C37: the supply never issues a put with an amount that is not          *)
(* positive: when the pallet arrives the level of pieces is below 60, so  *)
(* 60 - level is positive, the box of screws is put only with a positive  *)
(* amount, and the supply never ends with a ValueError.                    *)
C37_SupplyPutsArePositive ==
    /\ Running(1, "espera") => cont["pecas"].level < CapPecas
    /\ \A e \in PutsDoAbastecimento : ev[e].arg[1] > 0
    /\ err # "ValueError"

(* The pallet arrives for the second time: the pieces were already        *)
(* topped up to 60 once, with a box of screws, and the level is below 60  *)
(* again.                                                                  *)
C37_Witness ==
    /\ Running(1, "espera")
    /\ \E e \in PutsDoAbastecimento : ev[e].on = "pecas"
    /\ \E e \in PutsDoAbastecimento : ev[e].on = "parafusos"
    /\ cont["pecas"].level < CapPecas

====
